---- MODULE Spec2Model ----
(***************************************************************************)
(* The Simulation Core of the two-room companion game                      *)
(* (Game_Build_Logics/game_engine.py) and its three emotion strategies     *)
(* (Game_Build_Logics/Emotion_Systems), as a state machine.                *)
(*                                                                         *)
(* One step of the machine is one call of Game.update(): the whole tick,   *)
(* with its sub-steps in the order of the code.                            *)
(*                                                                         *)
(* Units.  Positions are fixed-point numbers, SUB units to the pixel, so   *)
(* that every companion step length (NPC_SPEED times 1.5, 1.2, 1.0, 0.5)   *)
(* is a whole number.  The player's health is counted in 1/FPS health      *)
(* points, so that the per-tick enemy damage ENEMY_DAMAGE / FPS is the     *)
(* whole number ENEMY_DAMAGE.  Enemy health is counted in health points.   *)
(***************************************************************************)
EXTENDS Integers, Naturals, Sequences, FiniteSets, TLC

(***************************************************************************)
(* Game constants (game_engine.py, lines 10-65)                            *)
(***************************************************************************)
WIDTH == 1400
HEIGHT == 750
ROOM_WIDTH == 600
ROOM_HEIGHT == 600
PLAYER_SIZE == 30
NPC_SIZE == 24
ENEMY_SIZE == 30
OBSTACLE_SIZE == 40
FPS == 30
MAX_HEALTH == 100
ENEMY_DAMAGE == 20
RESOURCE_HEAL == 10
ENEMY_DETECTION_RADIUS == 250
ATTACK_RADIUS == 60
PLAYER_DAMAGE == 100
NPC_DAMAGE == 20
PLAYER_SPEED == 4
MIN_OBSTACLES == 3
MAX_OBSTACLES == 8
\* max_attempts of generate_obstacles
MAX_ATTEMPTS == 50

\* sub-pixel resolution of the fixed-point positions: NPC_SPEED = 2.5 and its
\* factors 1.5, 1.2, 1.0, 0.5 give the step lengths 3.75, 3.0, 2.5, 1.25 px
SUB == 4
\* NPC_SPEED = 2.5 px, in position units
NPC_SPEED == (5 * SUB) \div 2
\* ENEMY_SPEED = 1.5 px, in position units
ENEMY_SPEED == (3 * SUB) \div 2

\* local constants of update_npc_position
IDEAL_DISTANCE == 60
MIN_DISTANCE == 40
NPC_ATTACK_COOLDOWN == 30
HEALING_AMOUNT == 10
\* Game.__init__
ROOM_TRANSITION_COOLDOWN == 500
\* pool sizes of Game.reset
ENEMIES_ROOM_1 == 7
ENEMIES_ROOM_2 == 8
RESOURCES_PER_ROOM == 2
ENEMY_START_HEALTH == 100
PLAYER_START_HEALTH == 100
\* thresholds of check_resource_collection and check_exit_interaction
DOOR_RESOURCES == 2
EXIT_KILLS == 8
EXIT_RESOURCES == 4
HINT_KILLS == 5
\* RandomEmotionSystem
EMOTION_CHANGE_INTERVAL == 35
EMOTION_CHANGE_SPREAD == 15
\* rule thresholds of RuleBasedEmotionSystem.determine_emotion
RULE_RESOURCE_NEAR == 150
RULE_ENEMY_MEDIUM == 125
RULE_ENEMY_CLOSE == 60
RULE_SURPRISE_RANGE == 60
RULE_LOW_HEALTH == 30
\* sentinel of get_nearest_enemy_distance / get_nearest_resource_distance
NO_TARGET_DISTANCE == 1000

(***************************************************************************)
(* Bounds of the exploration                                               *)
(***************************************************************************)
\* number of ticks with freely chosen input after a scenario's scripted prefix
MaxFree == 2

(***************************************************************************)
(* Enumerations (game_engine.py, lines 68-97)                              *)
(***************************************************************************)
PlayerAction == {"idle", "move", "attack"}
NPCEmotion == {"anticipation", "happiness", "fear", "anger", "surprise", "sadness"}
NPCReaction == {"follow", "notify_resource", "notify_danger", "attack_enemy",
                "notify_surprise", "provide_healing"}
GameState == {"start_screen", "playing", "completed"}
EmotionSystem == {"random", "rule_based", "machine_learning"}

(***************************************************************************)
(* Arithmetic helpers                                                      *)
(***************************************************************************)
Min(a, b) == IF a <= b THEN a ELSE b
Max(a, b) == IF a >= b THEN a ELSE b
Abs(a) == IF a >= 0 THEN a ELSE -a
\* pixels to position units
Px(n) == n * SUB
\* health points to player-health units
Hp(n) == n * FPS

\* floor of the square root of n >= 1, by Newton's iteration downward from a
\* guess x >= sqrt(n)
RECURSIVE SqrtFrom(_, _)
SqrtFrom(n, x) ==
  IF (x + n \div x) \div 2 >= x THEN x ELSE SqrtFrom(n, (x + n \div x) \div 2)

\* squared distance of two points; math.sqrt(dx**2 + dy**2) < r is Dist2 < r*r
Dist2(x1, y1, x2, y2) == (x1 - x2) * (x1 - x2) + (y1 - y2) * (y1 - y2)
\* math.sqrt((x1-x2)**2 + (y1-y2)**2) < r, r in pixels
Closer(x1, y1, x2, y2, r) == Dist2(x1, y1, x2, y2) < Px(r) * Px(r)
\* math.sqrt(...) > r, r in pixels
Farther(x1, y1, x2, y2, r) == Dist2(x1, y1, x2, y2) > Px(r) * Px(r)

\* integer division rounding toward zero
DivT(a, b) == IF a >= 0 THEN a \div b ELSE -((-a) \div b)
\* one component of  (d / distance) * len : the step of length len along the
\* unit vector of (dx, dy), rounded toward zero to the position resolution
StepAlong(d, dx, dy, len) ==
  IF dx = 0 /\ dy = 0 THEN 0
  ELSE DivT(d * len, SqrtFrom(dx * dx + dy * dy, Abs(dx) + Abs(dy)))

\* Python's round() on a position: to the nearest whole pixel, ties to even
RoundPx(v) ==
  LET k == v \div SUB
      r == v % SUB
  IN IF 2 * r < SUB THEN k * SUB
     ELSE IF 2 * r > SUB THEN (k + 1) * SUB
     ELSE IF k % 2 = 0 THEN k * SUB ELSE (k + 1) * SUB

\* the one element of a singleton set
The(S) == CHOOSE y \in S : TRUE

\* max(lo, min(v, hi))
Clamp(v, lo, hi) == Max(lo, Min(v, hi))

(***************************************************************************)
(* Static geometry (Game.reset, lines 205-207, 229-233, 282-298)           *)
(***************************************************************************)
room_x_offset == (WIDTH - (2 * ROOM_WIDTH + 150)) \div 2
room_y_offset == (HEIGHT - ROOM_HEIGHT) \div 2
\* self.rooms, in pixels
rooms == [r \in {1, 2} |->
           [x |-> IF r = 1 THEN room_x_offset ELSE room_x_offset + ROOM_WIDTH + 150,
            y |-> room_y_offset, width |-> ROOM_WIDTH, height |-> ROOM_HEIGHT]]
\* the static part of self.door, in pixels
door_rect == [x |-> rooms[1].x + ROOM_WIDTH, y |-> rooms[1].y + ROOM_HEIGHT \div 2 - 50,
              width |-> 150, height |-> 100]
\* self.exit, in pixels
exit_rect == [x |-> rooms[2].x + ROOM_WIDTH - 70, y |-> rooms[2].y + ROOM_HEIGHT \div 2 - 40,
              width |-> 60, height |-> 80, room |-> 2]

(***************************************************************************)
(* Placement (generate_obstacles, get_valid_position)                      *)
(*                                                                         *)
(* A placement is one outcome of the random draws of Game.reset:           *)
(*   obstacles : room -> set of obstacle centres <<x, y>> (pixels)         *)
(*   enemies   : sequence of [x, y (pixels), speed (position units)]       *)
(*   resources : sequence of <<x, y>> (pixels)                             *)
(***************************************************************************)
\* the two reserved safe rectangles <<x, y, w, h>> of a room
safe_zones(room_id) ==
  LET room == rooms[room_id]
  IN { IF room_id = 1
         THEN <<room.x + 100, room.y + 100, 150, 150>>
         ELSE <<room.x, room.y + ROOM_HEIGHT \div 2 - 100, 150, 200>>,
       <<room.x + ROOM_WIDTH - 150, room.y + ROOM_HEIGHT \div 2 - 100, 150, 200>> }

in_safe_zone(room_id, x, y) ==
  \E z \in safe_zones(room_id) :
     z[1] <= x /\ x <= z[1] + z[3] /\ z[2] <= y /\ y <= z[2] + z[4]

\* faulty variant of first_accepted: the safe zones are not looked at
RECURSIVE first_accepted_anywhere(_, _, _, _)
first_accepted_anywhere(room_id, obs, attempts, left) ==
  IF attempts = <<>> \/ left = 0 THEN {}
  ELSE IF \A q \in obs :
            ~(4 * Dist2(Head(attempts)[1], Head(attempts)[2], q[1], q[2])
                < 9 * OBSTACLE_SIZE * OBSTACLE_SIZE)
    THEN {Head(attempts)}
  ELSE first_accepted_anywhere(room_id, obs, Tail(attempts), left - 1)

\* the attempts for one obstacle (lines 334-356): the first of at most `left`
\* sampled centres that lies outside both safe zones and not closer than
\* 1.5 * OBSTACLE_SIZE to an obstacle of obs; none when every attempt fails
RECURSIVE first_accepted(_, _, _, _)
first_accepted(room_id, obs, attempts, left) ==
  IF attempts = <<>> \/ left = 0 THEN {}
  ELSE IF /\ ~in_safe_zone(room_id, Head(attempts)[1], Head(attempts)[2])
          /\ \A q \in obs :
               ~(4 * Dist2(Head(attempts)[1], Head(attempts)[2], q[1], q[2])
                   < 9 * OBSTACLE_SIZE * OBSTACLE_SIZE)
    THEN {Head(attempts)}
  ELSE first_accepted(room_id, obs, Tail(attempts), left - 1)

\* the loop over the obstacles of one room (line 333): draws holds, per
\* obstacle, the centres its attempts sample
RECURSIVE place_obstacles(_, _, _)
place_obstacles(room_id, obs, draws) ==
  IF draws = <<>> THEN obs
  ELSE place_obstacles(room_id,
                       obs \cup first_accepted(room_id, obs, Head(draws), MAX_ATTEMPTS),
                       Tail(draws))

\* Game.generate_obstacles (lines 303-358) for the draws of both rooms: the
\* number of obstacles drawn for a room is the number of its attempt lists
generate_obstacles(draws) ==
  [room_id \in {1, 2} |-> place_obstacles(room_id, {}, draws[room_id])]

\* what get_valid_position(room_id) can return: a sampled point with clearance
\* OBSTACLE_SIZE + 30 from every obstacle of the room, or the fixed fallback
get_valid_position(room_id, obs, p) ==
  LET room == rooms[room_id]
  IN \/ /\ room.x + 40 <= p[1] /\ p[1] <= room.x + room.width - 40
        /\ room.y + 40 <= p[2] /\ p[2] <= room.y + room.height - 40
        /\ \A o \in obs :
             ~(Dist2(p[1], p[2], o[1], o[2]) < (OBSTACLE_SIZE + 30) * (OBSTACLE_SIZE + 30))
     \/ p = <<room.x + 150, room.y + 150>>

N_ENEMIES == ENEMIES_ROOM_1 + ENEMIES_ROOM_2
N_RESOURCES == 2 * RESOURCES_PER_ROOM
enemy_room(i) == IF i <= ENEMIES_ROOM_1 THEN 1 ELSE 2
resource_room(i) == IF i <= RESOURCES_PER_ROOM THEN 1 ELSE 2
\* random.uniform(ENEMY_SPEED * 0.8, ENEMY_SPEED * 1.2), at the position resolution
enemy_speeds == { s \in 1..(2 * ENEMY_SPEED) : 10 * s >= 8 * ENEMY_SPEED /\ 10 * s <= 12 * ENEMY_SPEED }

placement_ok(pl) ==
  /\ DOMAIN pl.obstacles = {1, 2}
  /\ Len(pl.enemies) = N_ENEMIES
  /\ \A i \in 1..N_ENEMIES :
       /\ get_valid_position(enemy_room(i), pl.obstacles[enemy_room(i)],
                             <<pl.enemies[i].x, pl.enemies[i].y>>)
       /\ pl.enemies[i].speed \in enemy_speeds
  /\ Len(pl.resources) = N_RESOURCES
  /\ \A i \in 1..N_RESOURCES :
       get_valid_position(resource_room(i), pl.obstacles[resource_room(i)], pl.resources[i])

(***************************************************************************)
(* State                                                                   *)
(***************************************************************************)
VARIABLES
  running,               \* Game.running
  state,                 \* Game.state
  frame,                 \* Game.frame
  debug_mode,            \* Game.debug_mode
  game_time_limit,       \* Game.game_time_limit (seconds, 0 = no limit)
  resources_collected,   \* Game.resources_collected
  enemies_killed,        \* Game.enemies_killed
  current_room,          \* Game.current_room
  door_unlock_effect,    \* Game.door_unlock_effect
  door_unlock_timer,     \* Game.door_unlock_timer
  lagged_player_action,  \* Game.lagged_player_action
  player,                \* Game.player
  npc,                   \* Game.npc
  obstacles,             \* Game.obstacles
  enemies,               \* Game.enemies
  resources,             \* Game.resources
  door,                  \* Game.door (the open flag; the rectangle is door_rect)
  emotion_system,        \* the strategy object: its type and its own fields
  transition_age,        \* pygame.time.get_ticks() - Game.last_room_transition,
                         \* saturated just above room_transition_cooldown
  log,                   \* what the last call of update() did (observation only)
  space_held,            \* the space bar is down (environment)
  script,                \* the scripted inputs still to come (environment)
  free,                  \* the number of freely chosen ticks still allowed
  played                 \* the PLAYING ticks run since play began (history)

vars == <<running, state, frame, debug_mode, game_time_limit, resources_collected,
          enemies_killed, current_room, door_unlock_effect, door_unlock_timer,
          lagged_player_action, player, npc, obstacles, enemies, resources, door,
          emotion_system, transition_age, log, space_held, script, free, played>>

\* the Game object as one record, for the methods below
Game ==
  [running |-> running, state |-> state, frame |-> frame, debug_mode |-> debug_mode,
   game_time_limit |-> game_time_limit, resources_collected |-> resources_collected,
   enemies_killed |-> enemies_killed, current_room |-> current_room,
   door_unlock_effect |-> door_unlock_effect, door_unlock_timer |-> door_unlock_timer,
   lagged_player_action |-> lagged_player_action, player |-> player, npc |-> npc,
   obstacles |-> obstacles, enemies |-> enemies, resources |-> resources, door |-> door,
   emotion_system |-> emotion_system, transition_age |-> transition_age, log |-> log]

\* the next state's Game object is g
Becomes(g) ==
  /\ running' = g.running /\ state' = g.state /\ frame' = g.frame
  /\ debug_mode' = g.debug_mode /\ game_time_limit' = g.game_time_limit
  /\ resources_collected' = g.resources_collected /\ enemies_killed' = g.enemies_killed
  /\ current_room' = g.current_room /\ door_unlock_effect' = g.door_unlock_effect
  /\ door_unlock_timer' = g.door_unlock_timer
  /\ lagged_player_action' = g.lagged_player_action
  /\ player' = g.player /\ npc' = g.npc /\ obstacles' = g.obstacles
  /\ enemies' = g.enemies /\ resources' = g.resources /\ door' = g.door
  /\ emotion_system' = g.emotion_system /\ transition_age' = g.transition_age
  /\ log' = g.log

\* the observation record of a tick of g in which nothing has happened yet
\*   health_min, health_max : extremes of the player's health during the tick
\*   hitters     : the enemies that damaged the player
\*   damaged     : the enemies that lost health
\*   since_hit   : the ticks since the companion's last hit (0: it hit in
\*                 this tick), counted up to NPC_ATTACK_COOLDOWN, and whether
\*                 Game.reset has run since that hit
\*   since_change : the ticks since the strategy last returned an emotion
\*                 other than the companion's (0: in this tick), counted up
\*                 to the least cooldown of RandomEmotionSystem, and whether
\*                 Game.reset has run since; since_hit and since_change are
\*                 the entries carried from tick to tick
\*   reset       : Game.reset ran
\*   traversed   : check_door_interaction changed rooms; at_traverse is the
\*                 companion's position right after it
\*   rejected    : the movers whose position is_valid_move refused
\*   debug_keys  : the debug keys (o, 1, 2) handled in debug mode
\*   player_move, npc_move : the position saved before the move (from), the
\*                 position computed (to), the position after the obstacle
\*                 check and before the room clamp (at), the room of the check
\*   enemy_jit, enemy_to, enemy_at : per enemy, the position after the
\*                 jitter, the position computed by jitter and pursuit, and
\*                 the position before the room clamp
\*   strategy_calls : calls of determine_emotion
\*   strategy_args, strategy_returned : the lagged emotion and the lagged
\*                 player action the strategy was called with, and the label
\*                 it returned; whether update_npc_emotion left the entity
\*                 store as it was before the call
\*   strategy_predicted : the class the loaded model of MLEmotionSystem
\*                 predicted in the call, "error" when the prediction raised,
\*                 "none" when no model was asked
\*   exit        : check_exit_interaction: the room, the player's position
\*                 and the counters it ran with, whether the player touched
\*                 the exit, whether it set the state to completed, and the
\*                 shortfall <<missing_resources, missing_enemies>> it
\*                 computed when it denied completion
empty_log(g) ==
  [health_min |-> g.player.health, health_max |-> g.player.health,
   hitters |-> {}, damaged |-> {},
   since_hit |-> [ticks |-> Min(g.log.since_hit.ticks + 1, NPC_ATTACK_COOLDOWN),
                  reset |-> g.log.since_hit.reset],
   since_change |-> [ticks |-> Min(g.log.since_change.ticks + 1,
                                   EMOTION_CHANGE_INTERVAL - EMOTION_CHANGE_SPREAD),
                     reset |-> g.log.since_change.reset],
   reset |-> FALSE, traversed |-> FALSE, at_traverse |-> <<0, 0>>,
   rejected |-> {}, debug_keys |-> {},
   player_move |-> [from |-> <<g.player.x, g.player.y>>, to |-> <<g.player.x, g.player.y>>,
                    at |-> <<g.player.x, g.player.y>>, room |-> g.current_room],
   npc_move |-> [from |-> <<g.npc.x, g.npc.y>>, to |-> <<g.npc.x, g.npc.y>>,
                 at |-> <<g.npc.x, g.npc.y>>, room |-> g.current_room],
   enemy_jit |-> [i \in DOMAIN g.enemies |-> <<g.enemies[i].x, g.enemies[i].y>>],
   enemy_to |-> [i \in DOMAIN g.enemies |-> <<g.enemies[i].x, g.enemies[i].y>>],
   enemy_at |-> [i \in DOMAIN g.enemies |-> <<g.enemies[i].x, g.enemies[i].y>>],
   strategy_calls |-> 0,
   strategy_args |-> [npc_emotion_lagged |-> g.npc.emotion,
                      lagged_player_action |-> g.player.action],
   strategy_returned |-> g.npc.emotion,
   strategy_kept |-> TRUE,
   strategy_predicted |-> "none",
   exit |-> [room |-> g.current_room, at |-> <<g.player.x, g.player.y>>,
             killed |-> g.enemies_killed, collected |-> g.resources_collected,
             touched |-> FALSE, granted |-> FALSE, missing |-> <<0, 0>>]]

(***************************************************************************)
(* Game.reset (lines 189-301) with the placement pl drawn by its random    *)
(* calls; emotion_system.initialize is its last statement                  *)
(***************************************************************************)
\* BaseEmotionSystem.initialize / RandomEmotionSystem.initialize /
\* MLEmotionSystem.initialize on the strategy object es
initialize(es) ==
  IF es.type = "random" THEN [es EXCEPT !.emotion_change_cooldown = 0] ELSE es

reset(g, pl) ==
  [g EXCEPT
     !.running = TRUE,
     !.resources_collected = 0,
     !.enemies_killed = 0,
     !.current_room = 1,
     !.frame = 0,
     !.door_unlock_effect = FALSE,
     !.door_unlock_timer = -1,
     !.lagged_player_action = "idle",
     !.player = [x |-> Px(room_x_offset + 150), y |-> Px(room_y_offset + 150),
                 health |-> Hp(PLAYER_START_HEALTH), action |-> "idle",
                 speed |-> Px(PLAYER_SPEED),
                 resources_collected |-> 0, enemies_killed |-> 0],
     !.npc = [x |-> Px(room_x_offset + 100), y |-> Px(room_y_offset + 100),
              emotion |-> "anticipation", emotion_lagged |-> "anticipation",
              reaction |-> "follow", speed |-> NPC_SPEED, attack_cooldown |-> 0],
     !.obstacles = pl.obstacles,
     !.enemies = [i \in 1..N_ENEMIES |->
                    [x |-> Px(pl.enemies[i].x), y |-> Px(pl.enemies[i].y),
                     speed |-> pl.enemies[i].speed, alive |-> TRUE,
                     room |-> enemy_room(i), health |-> ENEMY_START_HEALTH]],
     !.resources = [i \in 1..N_RESOURCES |->
                      [x |-> Px(pl.resources[i][1]), y |-> Px(pl.resources[i][2]),
                       collected |-> FALSE, room |-> resource_room(i)]],
     !.door = [open |-> FALSE],
     !.emotion_system = initialize(g.emotion_system),
     !.log.reset = TRUE,
     !.log.since_hit.reset = TRUE,
     !.log.since_change.reset = TRUE]

(***************************************************************************)
(* Inputs of one tick                                                      *)
(*   ev      : the pygame events of the frame, in order                    *)
(*   keys    : the held movement keys, a subset of MoveKeys                *)
(*   emo     : the label the strategy's source of choice yields: the       *)
(*             random.choice of RandomEmotionSystem, the class predicted   *)
(*             by the model of MLEmotionSystem ("error": predict raised)   *)
(*   gap     : random.randint(-15, 15) of RandomEmotionSystem              *)
(*   jit     : the enemy (0: none) whose random jitter is <<jx, jy>>; the  *)
(*             jitter of every other enemy is <<0, 0>>                     *)
(*   dodge   : random.random() < 0.3 in update_enemies, and the step       *)
(*             <<cos(angle), sin(angle)>> * speed of the random heading    *)
(***************************************************************************)
MoveKeys == {"up", "down", "left", "right"}
Events == {"quit", "k_escape", "k_r", "k_space_down", "k_space_up", "ctrl_d",
           "k_o", "k_1", "k_2", "k_return"}

(***************************************************************************)
(* Geometry queries                                                        *)
(***************************************************************************)
\* Game.is_valid_move (lines 386-394); x, y in position units, size in pixels
is_valid_move(g, x, y, size) ==
  \A o \in g.obstacles[g.current_room] :
     ~(4 * Dist2(x, y, Px(o[1]), Px(o[2])) < Px(OBSTACLE_SIZE + size) * Px(OBSTACLE_SIZE + size))

\* Game.is_player_at_door (lines 648-666)
is_player_at_door(g) ==
  /\ Abs(2 * g.player.x - Px(2 * door_rect.x + door_rect.width))
       < Px(door_rect.width + PLAYER_SIZE)
  /\ Abs(2 * g.player.y - Px(2 * door_rect.y + door_rect.height))
       < Px(door_rect.height + PLAYER_SIZE)

\* the current room's rectangle inset by size // 2: the clamp of every mover
clamp_x(g, x, size) ==
  Clamp(x, Px(rooms[g.current_room].x + size \div 2),
           Px(rooms[g.current_room].x + rooms[g.current_room].width - size \div 2))
clamp_y(g, y, size) ==
  Clamp(y, Px(rooms[g.current_room].y + size \div 2),
           Px(rooms[g.current_room].y + rooms[g.current_room].height - size \div 2))

(***************************************************************************)
(* Game.check_attack (lines 736-749)                                       *)
(***************************************************************************)
\* faulty variant of attack_targets: the alive test left out
attack_targets_any(g) ==
  { i \in 1..N_ENEMIES :
      /\ g.enemies[i].room = g.current_room
      /\ Closer(g.player.x, g.player.y, g.enemies[i].x, g.enemies[i].y, ATTACK_RADIUS) }

\* the enemies a player attack reaches: alive, in the current room, in range
attack_targets(g) ==
  { i \in 1..N_ENEMIES :
      /\ g.enemies[i].room = g.current_room
      /\ g.enemies[i].alive
      /\ Closer(g.player.x, g.player.y, g.enemies[i].x, g.enemies[i].y, ATTACK_RADIUS) }

\* one enemy after taking dmg points of damage: deactivated at health <= 0
damage_enemy(e, dmg) ==
  [e EXCEPT !.health = e.health - dmg,
            !.alive = IF e.health - dmg <= 0 THEN FALSE ELSE e.alive]

\* faulty variant of check_attack: the counters assigned, not incremented
check_attack_assigning(g) ==
  IF g.player.action # "attack" THEN g
  ELSE LET hit == attack_targets(g)
           after == [i \in 1..N_ENEMIES |->
                       IF i \in hit THEN damage_enemy(g.enemies[i], PLAYER_DAMAGE)
                       ELSE g.enemies[i]]
           kills == Cardinality({ i \in hit : ~after[i].alive })
       IN [g EXCEPT !.enemies = after,
                    !.player.enemies_killed = kills,
                    !.enemies_killed = kills,
                    !.log.damaged = @ \cup hit]

\* faulty variant of check_attack: the player hits as hard as the companion
check_attack_glancing(g) ==
  IF g.player.action # "attack" THEN g
  ELSE LET hit == attack_targets(g)
           after == [i \in 1..N_ENEMIES |->
                       IF i \in hit THEN damage_enemy(g.enemies[i], NPC_DAMAGE)
                       ELSE g.enemies[i]]
           kills == Cardinality({ i \in hit : ~after[i].alive })
       IN [g EXCEPT !.enemies = after,
                    !.player.enemies_killed = @ + kills,
                    !.enemies_killed = @ + kills,
                    !.log.damaged = @ \cup hit]

check_attack(g) ==
  IF g.player.action # "attack" THEN g
  ELSE LET hit == attack_targets(g)
           after == [i \in 1..N_ENEMIES |->
                       IF i \in hit THEN damage_enemy(g.enemies[i], PLAYER_DAMAGE)
                       ELSE g.enemies[i]]
           kills == Cardinality({ i \in hit : ~after[i].alive })
       IN [g EXCEPT !.enemies = after,
                    !.player.enemies_killed = @ + kills,
                    !.enemies_killed = @ + kills,
                    !.log.damaged = @ \cup hit]

(***************************************************************************)
(* Game.check_door_interaction (lines 668-711)                             *)
(***************************************************************************)
\* the room change of a traversal (lines 680-700): the other room becomes
\* current, player and companion are placed next to the door
change_room(g) ==
  LET target == IF g.current_room = 1 THEN 2 ELSE 1
      px == IF target = 2 THEN Px(rooms[2].x + 50)
                          ELSE Px(rooms[1].x + ROOM_WIDTH - 50)
      py == Px(rooms[target].y + ROOM_HEIGHT \div 2)
  IN [g EXCEPT !.current_room = target,
               !.player.x = px, !.player.y = py,
               !.npc.x = px - Px(30), !.npc.y = py,
               !.transition_age = 0,
               !.log.traversed = TRUE,
               !.log.at_traverse = <<px - Px(30), py>>]

\* faulty variant of traverse_door: the door locks behind the player
traverse_door_relocking(g) ==
  [change_room(g) EXCEPT !.door_unlock_effect = FALSE, !.door.open = FALSE]

\* faulty variant of traverse_door: the unlock effect left on
traverse_door_glowing(g) == change_room(g)

\* a traversal of the open door (lines 676-700)
traverse_door(g) == [change_room(g) EXCEPT !.door_unlock_effect = FALSE]

\* faulty variant of check_door_interaction: no cooldown between traversals
check_door_interaction_hasty(g) ==
  IF is_player_at_door(g) /\ g.door.open THEN traverse_door(g) ELSE g

check_door_interaction(g) ==
  IF ~is_player_at_door(g) THEN g
  ELSE IF ~(g.transition_age > ROOM_TRANSITION_COOLDOWN) THEN g
  ELSE IF g.door.open
    THEN traverse_door(g)
    ELSE \* the door is locked: push the player away from it
         IF g.player.x < Px(door_rect.x)
           THEN [g EXCEPT !.player.x = @ - Px(10)]
           ELSE [g EXCEPT !.player.x = @ + Px(10)]

(***************************************************************************)
(* Game.handle_playing_events (lines 781-861)                              *)
(***************************************************************************)
\* one event of the event loop
handle_playing_event(g, e) ==
  IF e = "k_space_down" THEN check_attack([g EXCEPT !.player.action = "attack"])
  ELSE IF e = "ctrl_d" THEN [g EXCEPT !.debug_mode = ~g.debug_mode]
  ELSE IF g.debug_mode /\ e = "k_o"
    THEN [g EXCEPT !.door.open = TRUE, !.log.debug_keys = @ \cup {e}]
  ELSE IF g.debug_mode /\ e \in {"k_1", "k_2"}
    THEN LET r == IF e = "k_1" THEN 1 ELSE 2
         IN [g EXCEPT !.current_room = r,
                      !.player.x = Px(rooms[r].x + ROOM_WIDTH \div 2),
                      !.player.y = Px(rooms[r].y + ROOM_HEIGHT \div 2),
                      !.log.debug_keys = @ \cup {e}]
  ELSE IF e = "k_space_up"
    THEN IF g.player.action = "attack" THEN [g EXCEPT !.player.action = "idle"] ELSE g
  ELSE g   \* quit, escape, restart, return: no effect while playing

RECURSIVE handle_playing_event_loop(_, _)
handle_playing_event_loop(g, ev) ==
  IF ev = <<>> THEN g
  ELSE handle_playing_event_loop(handle_playing_event(g, Head(ev)), Tail(ev))

\* the continuous key presses: the tentative position and the action state
move_player(g, keys) ==
  LET moved == keys # {}
      x1 == g.player.x - (IF "left" \in keys THEN g.player.speed ELSE 0)
                       + (IF "right" \in keys THEN g.player.speed ELSE 0)
      y1 == g.player.y - (IF "up" \in keys THEN g.player.speed ELSE 0)
                       + (IF "down" \in keys THEN g.player.speed ELSE 0)
      act == IF g.player.action = "attack" THEN "attack"
             ELSE IF moved THEN "move" ELSE "idle"
  IN [g EXCEPT !.player.x = x1, !.player.y = y1, !.player.action = act]

\* faulty variant of settle_player: the position is kept whatever the check says
settle_player_anywhere(g, old_x, old_y) ==
  [g EXCEPT !.log.player_move = [from |-> <<old_x, old_y>>,
                                 to |-> <<g.player.x, g.player.y>>,
                                 at |-> <<g.player.x, g.player.y>>,
                                 room |-> g.current_room]]

\* the obstacle check of the player's tentative position: revert on overlap
settle_player(g, old_x, old_y) ==
  IF is_valid_move(g, g.player.x, g.player.y, PLAYER_SIZE)
    THEN [g EXCEPT !.log.player_move = [from |-> <<old_x, old_y>>,
                                        to |-> <<g.player.x, g.player.y>>,
                                        at |-> <<g.player.x, g.player.y>>,
                                        room |-> g.current_room]]
    ELSE [g EXCEPT !.player.x = old_x, !.player.y = old_y,
                   !.log.rejected = @ \cup {"player"},
                   !.log.player_move = [from |-> <<old_x, old_y>>,
                                        to |-> <<g.player.x, g.player.y>>,
                                        at |-> <<old_x, old_y>>,
                                        room |-> g.current_room]]

\* the door handling or the room clamp that ends handle_playing_events
door_or_clamp(g) ==
  IF is_player_at_door(g) /\ g.door.open
    THEN check_door_interaction(g)
    ELSE [g EXCEPT !.player.x = clamp_x(g, g.player.x, PLAYER_SIZE),
                   !.player.y = clamp_y(g, g.player.y, PLAYER_SIZE)]

\* the part after the event loop: old_x, old_y are saved from its result g1
move_and_settle(g1, keys) ==
  door_or_clamp(settle_player(move_player(g1, keys), g1.player.x, g1.player.y))

handle_playing_events(g, in) ==
  move_and_settle(handle_playing_event_loop(g, in.ev), in.keys)

(***************************************************************************)
(* The decision snapshot and the three strategies                          *)
(*                                                                         *)
(* A proximity is carried as the squared distance in position units, so    *)
(* that  proximity < r  (r in pixels) is  proximity < Px(r) * Px(r).       *)
(***************************************************************************)
Within(proximity, r) == proximity < Px(r) * Px(r)

\* the least element of a non-empty set of numbers
MinOf(S) == CHOOSE m \in S : \A n \in S : m <= n

\* Game.get_nearest_enemy_distance (lines 396-402)
get_nearest_enemy_distance(g) ==
  LET ds == { Dist2(g.player.x, g.player.y, g.enemies[i].x, g.enemies[i].y) :
                i \in { j \in 1..N_ENEMIES :
                          g.enemies[j].room = g.current_room /\ g.enemies[j].alive } }
  IN IF ds = {} THEN Px(NO_TARGET_DISTANCE) * Px(NO_TARGET_DISTANCE) ELSE MinOf(ds)

\* Game.get_nearest_resource_distance (lines 404-410)
get_nearest_resource_distance(g) ==
  LET ds == { Dist2(g.player.x, g.player.y, g.resources[i].x, g.resources[i].y) :
                i \in { j \in 1..N_RESOURCES :
                          g.resources[j].room = g.current_room /\ ~g.resources[j].collected } }
  IN IF ds = {} THEN Px(NO_TARGET_DISTANCE) * Px(NO_TARGET_DISTANCE) ELSE MinOf(ds)

\* faulty variant of rule_based_determine_emotion: health exactly 30 is not low
rule_based_strict_low_health(player_health, enemy_proximity, resource_proximity, player_x, player_y, npc_x, npc_y, current_player_action) ==
  LET e0 == "anticipation"
      e1 == IF Within(resource_proximity, RULE_RESOURCE_NEAR) THEN "happiness" ELSE e0
      e2 == IF Within(enemy_proximity, RULE_ENEMY_MEDIUM) THEN "fear" ELSE e1
      e3 == IF Within(enemy_proximity, RULE_ENEMY_CLOSE) THEN "anger" ELSE e2
      e4 == IF /\ current_player_action = "attack"
               /\ Closer(player_x, player_y, npc_x, npc_y, RULE_SURPRISE_RANGE)
              THEN "surprise" ELSE e3
      e5 == IF player_health < Hp(RULE_LOW_HEALTH) THEN "sadness" ELSE e4
  IN e5

\* faulty variant of rule_based_determine_emotion: the checks of the two enemy distances swapped
rule_based_fear_over_anger(player_health, enemy_proximity, resource_proximity, player_x, player_y, npc_x, npc_y, current_player_action) ==
  LET e0 == "anticipation"
      e1 == IF Within(resource_proximity, RULE_RESOURCE_NEAR) THEN "happiness" ELSE e0
      e2 == IF Within(enemy_proximity, RULE_ENEMY_CLOSE) THEN "anger" ELSE e1
      e3 == IF Within(enemy_proximity, RULE_ENEMY_MEDIUM) THEN "fear" ELSE e2
      e4 == IF /\ current_player_action = "attack"
               /\ Closer(player_x, player_y, npc_x, npc_y, RULE_SURPRISE_RANGE)
              THEN "surprise" ELSE e3
      e5 == IF player_health <= Hp(RULE_LOW_HEALTH) THEN "sadness" ELSE e4
  IN e5

\* faulty variant of rule_based_determine_emotion: the resource range one pixel short
rule_based_short_sighted(player_health, enemy_proximity, resource_proximity, player_x, player_y, npc_x, npc_y, current_player_action) ==
  LET e0 == "anticipation"
      e1 == IF Within(resource_proximity, RULE_RESOURCE_NEAR - 1) THEN "happiness" ELSE e0
      e2 == IF Within(enemy_proximity, RULE_ENEMY_MEDIUM) THEN "fear" ELSE e1
      e3 == IF Within(enemy_proximity, RULE_ENEMY_CLOSE) THEN "anger" ELSE e2
      e4 == IF /\ current_player_action = "attack"
               /\ Closer(player_x, player_y, npc_x, npc_y, RULE_SURPRISE_RANGE)
              THEN "surprise" ELSE e3
      e5 == IF player_health <= Hp(RULE_LOW_HEALTH) THEN "sadness" ELSE e4
  IN e5

\* RuleBasedEmotionSystem.determine_emotion (rule_based_emotion.py, lines 10-38):
\* later checks override earlier ones
rule_based_determine_emotion(player_health, enemy_proximity, resource_proximity, player_x, player_y, npc_x, npc_y, current_player_action) ==
  LET e0 == "anticipation"
      e1 == IF Within(resource_proximity, RULE_RESOURCE_NEAR) THEN "happiness" ELSE e0
      e2 == IF Within(enemy_proximity, RULE_ENEMY_MEDIUM) THEN "fear" ELSE e1
      e3 == IF Within(enemy_proximity, RULE_ENEMY_CLOSE) THEN "anger" ELSE e2
      e4 == IF /\ current_player_action = "attack"
               /\ Closer(player_x, player_y, npc_x, npc_y, RULE_SURPRISE_RANGE)
              THEN "surprise" ELSE e3
      e5 == IF player_health <= Hp(RULE_LOW_HEALTH) THEN "sadness" ELSE e4
  IN e5

\* faulty variant of ml_fallback_emotion: no anger, an enemy within 125 is
\* feared however close it is
ml_fallback_emotion_timid(player_health, enemy_proximity, resource_proximity, player_x, player_y, npc_x, npc_y, current_player_action) ==
  LET e0 == "anticipation"
      e1 == IF Within(resource_proximity, 150) THEN "happiness" ELSE e0
      e2 == IF Within(enemy_proximity, 125) THEN "fear" ELSE e1
      e4 == IF /\ current_player_action = "attack"
               /\ Closer(player_x, player_y, npc_x, npc_y, 60)
              THEN "surprise" ELSE e2
      e5 == IF player_health <= Hp(30) THEN "sadness" ELSE e4
  IN e5

\* the branch of MLEmotionSystem.determine_emotion taken when no model is
\* loaded (ml_emotion.py, lines 95-120)
ml_fallback_emotion(player_health, enemy_proximity, resource_proximity, player_x, player_y, npc_x, npc_y, current_player_action) ==
  LET e0 == "anticipation"
      e1 == IF Within(resource_proximity, 150) THEN "happiness" ELSE e0
      e2 == IF Within(enemy_proximity, 125) THEN "fear" ELSE e1
      e3 == IF Within(enemy_proximity, 60) THEN "anger" ELSE e2
      e4 == IF /\ current_player_action = "attack"
               /\ Closer(player_x, player_y, npc_x, npc_y, 60)
              THEN "surprise" ELSE e3
      e5 == IF player_health <= Hp(30) THEN "sadness" ELSE e4
  IN e5

\* faulty variant of ml_determine_emotion: a failed prediction yields the
\* default emotion
ml_determine_emotion_defaulting(es, player_health, enemy_proximity, resource_proximity, player_x, player_y, npc_x, npc_y, npc_emotion_lagged, current_player_action, predicted) ==
  IF ~es.model_loaded
    THEN ml_fallback_emotion(player_health, enemy_proximity, resource_proximity,
                             player_x, player_y, npc_x, npc_y, current_player_action)
    ELSE IF predicted \in NPCEmotion THEN predicted ELSE "anticipation"

\* MLEmotionSystem.determine_emotion (ml_emotion.py, lines 89-213); predicted is
\* the class the loaded model yields, "error" when the try block raises
ml_determine_emotion(es, player_health, enemy_proximity, resource_proximity, player_x, player_y, npc_x, npc_y, npc_emotion_lagged, current_player_action, predicted) ==
  IF ~es.model_loaded
    THEN ml_fallback_emotion(player_health, enemy_proximity, resource_proximity,
                             player_x, player_y, npc_x, npc_y, current_player_action)
    ELSE IF predicted \in NPCEmotion THEN predicted ELSE npc_emotion_lagged

\* faulty variant of random_determine_emotion: the drawn emotion is returned
\* on every call
random_determine_emotion_fickle(es, npc_emotion_lagged, choice, gap) ==
  LET cd == es.emotion_change_cooldown - 1
  IN IF cd <= 0
       THEN [es |-> [es EXCEPT !.emotion_change_cooldown = EMOTION_CHANGE_INTERVAL + gap],
             emotion |-> choice]
       ELSE [es |-> [es EXCEPT !.emotion_change_cooldown = cd],
             emotion |-> choice]

\* RandomEmotionSystem.determine_emotion (random_emotion.py, lines 17-32):
\* the strategy object after the call and the label returned
random_determine_emotion(es, npc_emotion_lagged, choice, gap) ==
  LET cd == es.emotion_change_cooldown - 1
  IN IF cd <= 0
       THEN [es |-> [es EXCEPT !.emotion_change_cooldown = EMOTION_CHANGE_INTERVAL + gap],
             emotion |-> choice]
       ELSE [es |-> [es EXCEPT !.emotion_change_cooldown = cd],
             emotion |-> npc_emotion_lagged]

\* emotion_system.determine_emotion(...) on the snapshot of g, dispatched on the
\* strategy chosen at construction
determine_emotion(g, npc_emotion_lagged, in) ==
  LET es == g.emotion_system
  IN IF es.type = "rule_based"
       THEN [es |-> es,
             emotion |-> rule_based_determine_emotion(
                           g.player.health, get_nearest_enemy_distance(g),
                           get_nearest_resource_distance(g), g.player.x, g.player.y,
                           g.npc.x, g.npc.y, g.player.action)]
     ELSE IF es.type = "machine_learning"
       THEN [es |-> es,
             emotion |-> ml_determine_emotion(
                           es, g.player.health, get_nearest_enemy_distance(g),
                           get_nearest_resource_distance(g), g.player.x, g.player.y,
                           g.npc.x, g.npc.y, npc_emotion_lagged, g.player.action, in.emo)]
     ELSE random_determine_emotion(es, npc_emotion_lagged, in.emo, in.gap)

\* faulty variant of update_npc_reaction: no entry for sadness, the reaction
\* of the emotion before stays
update_npc_reaction_partial(g) ==
  LET e == g.npc.emotion
  IN IF e = "anticipation" THEN [g EXCEPT !.npc.reaction = "follow"]
     ELSE IF e = "happiness" THEN [g EXCEPT !.npc.reaction = "notify_resource"]
     ELSE IF e = "fear" THEN [g EXCEPT !.npc.reaction = "notify_danger"]
     ELSE IF e = "anger" THEN [g EXCEPT !.npc.reaction = "attack_enemy"]
     ELSE IF e = "surprise" THEN [g EXCEPT !.npc.reaction = "notify_surprise"]
     ELSE g

\* Game.update_npc_reaction (lines 435-448)
update_npc_reaction(g) ==
  LET e == g.npc.emotion
  IN IF e = "anticipation" THEN [g EXCEPT !.npc.reaction = "follow"]
     ELSE IF e = "happiness" THEN [g EXCEPT !.npc.reaction = "notify_resource"]
     ELSE IF e = "fear" THEN [g EXCEPT !.npc.reaction = "notify_danger"]
     ELSE IF e = "anger" THEN [g EXCEPT !.npc.reaction = "attack_enemy"]
     ELSE IF e = "surprise" THEN [g EXCEPT !.npc.reaction = "notify_surprise"]
     ELSE IF e = "sadness" THEN [g EXCEPT !.npc.reaction = "provide_healing"]
     ELSE g

\* the entity store but for the companion's emotional state
entity_store(g) ==
  [player |-> g.player,
   npc |-> [x |-> g.npc.x, y |-> g.npc.y, speed |-> g.npc.speed,
            attack_cooldown |-> g.npc.attack_cooldown],
   enemies |-> g.enemies, resources |-> g.resources, obstacles |-> g.obstacles,
   door |-> g.door, current_room |-> g.current_room,
   door_unlock_effect |-> g.door_unlock_effect,
   resources_collected |-> g.resources_collected, enemies_killed |-> g.enemies_killed]

\* faulty variant of store_npc_emotion: a new emotion readies the companion's
\* attack
store_npc_emotion_rearming(g, r) ==
  update_npc_reaction(
    [g EXCEPT !.npc.emotion_lagged = g.npc.emotion,
              !.npc.emotion = r.emotion,
              !.npc.attack_cooldown = IF r.emotion # g.npc.emotion THEN 0 ELSE @,
              !.emotion_system = r.es,
              !.log.strategy_calls = @ + 1,
              !.log.strategy_returned = r.emotion])

\* Game.update_npc_emotion (lines 412-433)
\* r is the strategy's answer: the strategy object after the call and the label
store_npc_emotion(g, r) ==
  update_npc_reaction(
    [g EXCEPT !.npc.emotion_lagged = g.npc.emotion,
              !.npc.emotion = r.emotion,
              !.emotion_system = r.es,
              !.log.strategy_calls = @ + 1,
              !.log.strategy_returned = r.emotion,
              !.log.since_change = IF r.emotion # g.npc.emotion
                                     THEN [ticks |-> 0, reset |-> FALSE] ELSE @])

\* the lagged arguments of the call, as the strategy receives them
\* the outcome of self.model.predict, if the strategy has a model to ask
predicted_by(g, in) ==
  IF g.emotion_system.type = "machine_learning" /\ g.emotion_system.model_loaded
    THEN in.emo ELSE "none"

strategy_kept(g, g1) ==
  [g1 EXCEPT !.log.strategy_kept = (entity_store(g1) = entity_store(g))]

call_strategy(g, npc_emotion_lagged, in) ==
  strategy_kept(g,
    store_npc_emotion(
      [g EXCEPT !.log.strategy_args = [npc_emotion_lagged |-> npc_emotion_lagged,
                                       lagged_player_action |-> g.lagged_player_action],
                !.log.strategy_predicted = predicted_by(g, in)],
      determine_emotion(g, npc_emotion_lagged, in)))

\* faulty variant of update_npc_emotion: the strategy is given the lagged
\* emotion of the tick before, read before it is brought up to date
update_npc_emotion_stale(g, in) == call_strategy(g, g.npc.emotion_lagged, in)

update_npc_emotion(g, in) == call_strategy(g, g.npc.emotion, in)

(***************************************************************************)
(* Game.update_npc_position (lines 450-565)                                *)
(***************************************************************************)
\* assignment to player["health"], with the extremes of the tick recorded
set_player_health(g, h) ==
  [g EXCEPT !.player.health = h,
            !.log.health_min = Min(@, h),
            !.log.health_max = Max(@, h)]

\* the companion moved by len position units along the direction to (tx, ty)
npc_step(g, tx, ty, len) ==
  LET dx == tx - g.npc.x
      dy == ty - g.npc.y
  IN [g EXCEPT !.npc.x = @ + StepAlong(dx, dx, dy, len),
               !.npc.y = @ + StepAlong(dy, dx, dy, len)]

\* each branch yields the Game object and the flag moved
\* FOLLOW: the hysteresis band around IDEAL_DISTANCE (lines 462-488)
npc_follow(g) ==
  LET px == g.player.x
      py == g.player.y
      nx == g.npc.x
      ny == g.npc.y
  IN IF Dist2(px, py, nx, ny) > 0
       THEN IF Farther(px, py, nx, ny, IDEAL_DISTANCE + 10)
              THEN [g |-> npc_step(g, px, py, (g.npc.speed * 3) \div 2), moved |-> TRUE]
            ELSE IF Closer(px, py, nx, ny, MIN_DISTANCE)
              THEN [g |-> npc_step(g, px, py, -(g.npc.speed \div 2)), moved |-> TRUE]
            ELSE IF Farther(px, py, nx, ny, IDEAL_DISTANCE)
                    /\ Farther(px, py, nx, ny, IDEAL_DISTANCE + 5)
              THEN [g |-> npc_step(g, px, py, g.npc.speed), moved |-> TRUE]
            ELSE [g |-> g, moved |-> FALSE]
       ELSE [g |-> g, moved |-> FALSE]

\* NOTIFY_RESOURCE, NOTIFY_DANGER (lines 490-500)
npc_notify(g) ==
  IF 4 * Dist2(g.player.x, g.player.y, g.npc.x, g.npc.y)
       > Px(3 * IDEAL_DISTANCE) * Px(3 * IDEAL_DISTANCE)
    THEN [g |-> npc_step(g, g.player.x, g.player.y, (g.npc.speed * 6) \div 5),
          moved |-> TRUE]
    ELSE [g |-> g, moved |-> FALSE]

\* the alive enemies of the current room, the companion's candidates
npc_candidates(g) ==
  { i \in 1..N_ENEMIES : g.enemies[i].room = g.current_room /\ g.enemies[i].alive }

\* the first enemy of the list at the least distance from the companion
nearest_enemy(g) ==
  LET c == npc_candidates(g)
      d(i) == Dist2(g.npc.x, g.npc.y, g.enemies[i].x, g.enemies[i].y)
  IN CHOOSE i \in c : \A j \in c : d(i) < d(j) \/ (d(i) = d(j) /\ i <= j)

\* the companion's hit on enemy i: damage, cooldown, deactivate and count
npc_hit(g, i) ==
  LET after == damage_enemy(g.enemies[i], NPC_DAMAGE)
      kills == IF after.alive THEN 0 ELSE 1
  IN [g EXCEPT !.enemies[i] = after,
               !.npc.attack_cooldown = NPC_ATTACK_COOLDOWN,
               !.player.enemies_killed = @ + kills,
               !.enemies_killed = @ + kills,
               !.log.damaged = @ \cup {i},
               !.log.since_hit = [ticks |-> 0, reset |-> FALSE]]

\* faulty variant of npc_engage: the companion hits whatever its cooldown
npc_engage_eager(g, i) ==
  LET ex == g.enemies[i].x
      ey == g.enemies[i].y
  IN IF Farther(g.npc.x, g.npc.y, ex, ey, ATTACK_RADIUS + 5)
       THEN [g |-> npc_step(g, ex, ey, (g.npc.speed * 6) \div 5), moved |-> TRUE]
     ELSE IF Closer(g.npc.x, g.npc.y, ex, ey, ATTACK_RADIUS)
       THEN [g |-> npc_hit(g, i), moved |-> FALSE]
     ELSE [g |-> g, moved |-> FALSE]

\* ATTACK_ENEMY (lines 502-534)
npc_engage(g, i) ==
  LET ex == g.enemies[i].x
      ey == g.enemies[i].y
  IN IF Farther(g.npc.x, g.npc.y, ex, ey, ATTACK_RADIUS + 5)
       THEN [g |-> npc_step(g, ex, ey, (g.npc.speed * 6) \div 5), moved |-> TRUE]
     ELSE IF Closer(g.npc.x, g.npc.y, ex, ey, ATTACK_RADIUS)
             /\ g.npc.attack_cooldown = 0
       THEN [g |-> npc_hit(g, i), moved |-> FALSE]
     ELSE [g |-> g, moved |-> FALSE]

npc_attack_enemy(g) ==
  IF npc_candidates(g) = {} THEN [g |-> g, moved |-> FALSE]
  ELSE npc_engage(g, nearest_enemy(g))

\* PROVIDE_HEALING (lines 536-550)
npc_provide_healing(g) ==
  IF Farther(g.player.x, g.player.y, g.npc.x, g.npc.y, ATTACK_RADIUS + 5)
    THEN [g |-> npc_step(g, g.player.x, g.player.y, (g.npc.speed * 3) \div 2),
          moved |-> TRUE]
    ELSE [g |-> set_player_health(g, Min(g.player.health + Hp(HEALING_AMOUNT), Hp(100))),
          moved |-> FALSE]

\* the obstacle check of the companion's new position (lines 552-555)
settle_npc(g, old_x, old_y) ==
  IF is_valid_move(g, g.npc.x, g.npc.y, NPC_SIZE)
    THEN [g EXCEPT !.log.npc_move = [from |-> <<old_x, old_y>>,
                                     to |-> <<g.npc.x, g.npc.y>>,
                                     at |-> <<g.npc.x, g.npc.y>>,
                                     room |-> g.current_room]]
    ELSE [g EXCEPT !.npc.x = old_x, !.npc.y = old_y,
                   !.log.rejected = @ \cup {"npc"},
                   !.log.npc_move = [from |-> <<old_x, old_y>>,
                                     to |-> <<g.npc.x, g.npc.y>>,
                                     at |-> <<old_x, old_y>>,
                                     room |-> g.current_room]]

\* the room clamp and the rounding of an unmoved companion (lines 557-565)
clamp_npc(g, moved) ==
  LET cx == clamp_x(g, g.npc.x, NPC_SIZE)
      cy == clamp_y(g, g.npc.y, NPC_SIZE)
  IN IF moved THEN [g EXCEPT !.npc.x = cx, !.npc.y = cy]
     ELSE [g EXCEPT !.npc.x = RoundPx(cx), !.npc.y = RoundPx(cy)]

\* faulty variant of npc_react: a surprised companion heals like a sad one
npc_react_caring(g) ==
  IF g.npc.reaction = "follow" THEN npc_follow(g)
  ELSE IF g.npc.reaction \in {"notify_resource", "notify_danger"} THEN npc_notify(g)
  ELSE IF g.npc.reaction = "attack_enemy" THEN npc_attack_enemy(g)
  ELSE npc_provide_healing(g)

\* the branch of the companion's reaction (lines 462-550)
npc_react(g) ==
  IF g.npc.reaction = "follow" THEN npc_follow(g)
  ELSE IF g.npc.reaction \in {"notify_resource", "notify_danger"} THEN npc_notify(g)
  ELSE IF g.npc.reaction = "attack_enemy" THEN npc_attack_enemy(g)
  ELSE IF g.npc.reaction = "provide_healing" THEN npc_provide_healing(g)
  ELSE [g |-> g, moved |-> FALSE]

\* the obstacle check and the clamp of the branch's result b
npc_finish(b, old_x, old_y) == clamp_npc(settle_npc(b.g, old_x, old_y), b.moved)

\* the cooldown's decrement (lines 454-456)
npc_cool_down(g) ==
  IF g.npc.attack_cooldown > 0 THEN [g EXCEPT !.npc.attack_cooldown = @ - 1] ELSE g

update_npc_position(g) == npc_finish(npc_react(npc_cool_down(g)), g.npc.x, g.npc.y)

(***************************************************************************)
(* Game.update_enemies (lines 567-628)                                     *)
(***************************************************************************)
\* the jitter drawn for enemy i in this tick
jitter_of(in, i) == IF in.jit.i = i THEN in.jit.v ELSE <<0, 0>>

\* the first valid candidate of the pursuit chain: full vector, horizontal
\* only, vertical only, random heading (lines 586-606)
first_valid(g, full, horizontal, vertical, heading, dodge) ==
  IF is_valid_move(g, full[1], full[2], ENEMY_SIZE) THEN full
  ELSE IF is_valid_move(g, horizontal[1], horizontal[2], ENEMY_SIZE) THEN horizontal
  ELSE IF is_valid_move(g, vertical[1], vertical[2], ENEMY_SIZE) THEN vertical
  ELSE IF dodge THEN heading
  ELSE vertical

\* the candidates from the jittered position (x1, y1) and the step (sx, sy)
chase_from(g, e, x1, y1, sx, sy, in) ==
  first_valid(g, <<x1 + sx, y1 + sy>>, <<x1 + sx, y1>>, <<x1, y1 + sy>>,
              <<x1 + in.dodge.v[1] * e.speed, y1 + in.dodge.v[2] * e.speed>>,
              in.dodge.on)

\* the candidate the pursuit chain ends with (lines 581-606)
chase_candidate(g, e, x1, y1, in) ==
  chase_from(g, e, x1, y1,
             StepAlong(g.player.x - x1, g.player.x - x1, g.player.y - y1, e.speed),
             StepAlong(g.player.y - y1, g.player.x - x1, g.player.y - y1, e.speed), in)

\* whether the enemy at the jittered position (x1, y1) pursues the player
\* (lines 578-583)
pursues(g, x1, y1) ==
  /\ Closer(g.player.x, g.player.y, x1, y1, ENEMY_DETECTION_RADIUS)
  /\ Dist2(g.player.x, g.player.y, x1, y1) > 0

\* the position jitter and pursuit compute for the enemy: the candidate of
\* the chain when it pursues, else the jittered position
enemy_target(g, e, x1, y1, in) ==
  IF pursues(g, x1, y1) THEN chase_candidate(g, e, x1, y1, in) ELSE <<x1, y1>>

\* faulty variant of enemy_damage_player: the floor at 0 left out
enemy_damage_player_unfloored(g, i) ==
  [set_player_health(g, g.player.health - ENEMY_DAMAGE)
     EXCEPT !.log.hitters = @ \cup {i}]

\* the damage one enemy in range deals to the player (lines 624-626)
enemy_damage_player(g, i) ==
  [set_player_health(g, Max(0, g.player.health - ENEMY_DAMAGE))
     EXCEPT !.log.hitters = @ \cup {i}]

\* faulty variant of enemy_active: the alive test left out
enemy_active_dead_or_alive(g, i) == g.enemies[i].room = g.current_room

\* faulty variant of enemy_active: the room test left out
enemy_active_any_room(g, i) == g.enemies[i].alive

\* the enemies the loop simulates: alive, in the current room (line 569)
enemy_active(g, i) == g.enemies[i].room = g.current_room /\ g.enemies[i].alive

\* the jittered position of enemy i (lines 574-575)
jittered(g, i, in) ==
  <<g.enemies[i].x + jitter_of(in, i)[1], g.enemies[i].y + jitter_of(in, i)[2]>>

\* enemy i within ATTACK_RADIUS of the player, measured from its jittered
\* position (lines 578, 624)
enemy_in_range(g, i, in) ==
  Closer(g.player.x, g.player.y, jittered(g, i, in)[1], jittered(g, i, in)[2],
         ATTACK_RADIUS)

\* faulty variant of settle_enemy: a refused candidate undoes the jitter too
settle_enemy_reverting(g, old, j, c) ==
  IF is_valid_move(g, c[1], c[2], ENEMY_SIZE) THEN c ELSE old

\* the position of an enemy that computed c from the jittered position j and
\* had old before the tick: c is taken only if valid (lines 609-610), and the
\* result is kept only if valid (lines 612-615)
settle_enemy(g, old, j, c) ==
  IF is_valid_move(g, c[1], c[2], ENEMY_SIZE) THEN c
  ELSE IF is_valid_move(g, j[1], j[2], ENEMY_SIZE) THEN j
  ELSE old

\* the step of enemy i from its jittered position j (jit): the position
\* computed (to) and the position before the room clamp (at)
enemy_step_from(g, i, j, c) ==
  [jit |-> j, to |-> c, at |-> settle_enemy(g, <<g.enemies[i].x, g.enemies[i].y>>, j, c)]

enemy_step(g, i, in) ==
  IF ~enemy_active(g, i)
    THEN [jit |-> <<g.enemies[i].x, g.enemies[i].y>>,
          to |-> <<g.enemies[i].x, g.enemies[i].y>>,
          at |-> <<g.enemies[i].x, g.enemies[i].y>>]
    ELSE enemy_step_from(g, i, jittered(g, i, in),
                         enemy_target(g, g.enemies[i], jittered(g, i, in)[1],
                                      jittered(g, i, in)[2], in))

\* the record of enemy i after the body of the loop, st its step
update_enemy(g, i, st) ==
  IF ~enemy_active(g, i) THEN g.enemies[i]
  ELSE [g.enemies[i] EXCEPT !.x = clamp_x(g, st.at[1], ENEMY_SIZE),
                            !.y = clamp_y(g, st.at[2], ENEMY_SIZE)]

\* the hits of the enemies hs on the player, in list order
RECURSIVE enemies_damage_player(_, _)
enemies_damage_player(g, hs) ==
  IF hs = {} THEN g
  ELSE LET i == MinOf(hs)
       IN enemies_damage_player(enemy_damage_player(g, i), hs \ {i})

\* the enemies moved by their steps
move_enemies(g, steps) ==
  [g EXCEPT !.enemies = [i \in 1..N_ENEMIES |-> update_enemy(g, i, steps[i])],
            !.log.rejected = @ \cup { i \in 1..N_ENEMIES : steps[i].at # steps[i].to },
            !.log.enemy_jit = [i \in 1..N_ENEMIES |-> steps[i].jit],
            !.log.enemy_to = [i \in 1..N_ENEMIES |-> steps[i].to],
            !.log.enemy_at = [i \in 1..N_ENEMIES |-> steps[i].at]]

\* the loop: no enemy's step depends on another enemy's, and the hits on the
\* player land in list order
update_enemies(g, in) ==
  enemies_damage_player(
    move_enemies(g, [i \in 1..N_ENEMIES |-> enemy_step(g, i, in)]),
    { i \in 1..N_ENEMIES : enemy_active(g, i) /\ enemy_in_range(g, i, in) })

(***************************************************************************)
(* Game.check_resource_collection (lines 630-646)                          *)
(***************************************************************************)
\* faulty variant of unlock_door: one resource too many asked for
unlock_door_late(g) ==
  IF g.resources_collected > DOOR_RESOURCES /\ ~g.door.open
    THEN [g EXCEPT !.door.open = TRUE,
                   !.door_unlock_effect = TRUE,
                   !.door_unlock_timer = -1]
    ELSE g

\* the door unlocks with the second resource (lines 641-646)
unlock_door(g) ==
  IF g.resources_collected >= DOOR_RESOURCES /\ ~g.door.open
    THEN [g EXCEPT !.door.open = TRUE,
                   !.door_unlock_effect = TRUE,
                   !.door_unlock_timer = -1]
    ELSE g

\* faulty variant of collect_resource: the player's own counter left out
collect_resource_unmirrored(g, i) ==
  LET r == g.resources[i]
  IN IF /\ r.room = g.current_room
        /\ ~r.collected
        /\ Closer(g.player.x, g.player.y, r.x, r.y, ATTACK_RADIUS)
       THEN unlock_door(
              set_player_health(
                [g EXCEPT !.resources[i].collected = TRUE,
                          !.resources_collected = @ + 1],
                Min(g.player.health + Hp(RESOURCE_HEAL), Hp(100))))
       ELSE g

\* the body of the loop for resource i
collect_resource(g, i) ==
  LET r == g.resources[i]
  IN IF /\ r.room = g.current_room
        /\ ~r.collected
        /\ Closer(g.player.x, g.player.y, r.x, r.y, ATTACK_RADIUS)
       THEN unlock_door(
              set_player_health(
                [g EXCEPT !.resources[i].collected = TRUE,
                          !.player.resources_collected = @ + 1,
                          !.resources_collected = @ + 1],
                Min(g.player.health + Hp(RESOURCE_HEAL), Hp(100))))
       ELSE g

RECURSIVE check_resource_collection_from(_, _)
check_resource_collection_from(g, i) ==
  IF i > N_RESOURCES THEN g
  ELSE check_resource_collection_from(collect_resource(g, i), i + 1)

check_resource_collection(g) == check_resource_collection_from(g, 1)

(***************************************************************************)
(* Game.check_exit_interaction (lines 713-734)                             *)
(***************************************************************************)
\* player_rect.colliderect(exit_rect); the player's coordinates are whole pixels
player_touches_exit(g) ==
  /\ g.player.x - Px(PLAYER_SIZE) \div 2 < Px(exit_rect.x + exit_rect.width)
  /\ g.player.x - Px(PLAYER_SIZE) \div 2 + Px(PLAYER_SIZE) > Px(exit_rect.x)
  /\ g.player.y - Px(PLAYER_SIZE) \div 2 < Px(exit_rect.y + exit_rect.height)
  /\ g.player.y - Px(PLAYER_SIZE) \div 2 + Px(PLAYER_SIZE) > Px(exit_rect.y)

\* what the call has to go on, recorded when it begins
exit_seen(g, touched) ==
  [room |-> g.current_room, at |-> <<g.player.x, g.player.y>>,
   killed |-> g.enemies_killed, collected |-> g.resources_collected,
   touched |-> touched, granted |-> FALSE, missing |-> <<0, 0>>]

\* the feedback on what is missing (lines 724-727)
exit_shortfall(g) ==
  <<Max(0, EXIT_RESOURCES - g.player.resources_collected),
    Max(0, HINT_KILLS - g.player.enemies_killed)>>

\* faulty variant of check_exit_interaction: one of the two counts is enough
check_exit_interaction_either(g) ==
  IF g.current_room = 2 /\ player_touches_exit(g)
    THEN IF g.player.enemies_killed >= EXIT_KILLS
            \/ g.player.resources_collected >= EXIT_RESOURCES
           THEN [g EXCEPT !.state = "completed",
                          !.log.exit = [exit_seen(g, TRUE) EXCEPT !.granted = TRUE]]
           ELSE [g EXCEPT !.log.exit = [exit_seen(g, TRUE) EXCEPT
                                          !.missing = exit_shortfall(g)]]
    ELSE [g EXCEPT !.log.exit = exit_seen(g, FALSE)]

check_exit_interaction(g) ==
  IF g.current_room = 2 /\ player_touches_exit(g)
    THEN IF g.player.enemies_killed >= EXIT_KILLS
            /\ g.player.resources_collected >= EXIT_RESOURCES
           THEN [g EXCEPT !.state = "completed",
                          !.log.exit = [exit_seen(g, TRUE) EXCEPT !.granted = TRUE]]
           ELSE [g EXCEPT !.log.exit = [exit_seen(g, TRUE) EXCEPT
                                          !.missing = exit_shortfall(g)]]
    ELSE [g EXCEPT !.log.exit = exit_seen(g, FALSE)]

(***************************************************************************)
(* The door part of Game.draw_game (lines 1222-1242)                       *)
(***************************************************************************)
draw_game(g) ==
  IF g.door_unlock_effect /\ g.door_unlock_timer > 0
    THEN IF g.door_unlock_timer - 1 <= 0
           THEN [g EXCEPT !.door_unlock_timer = @ - 1, !.door_unlock_effect = FALSE]
           ELSE [g EXCEPT !.door_unlock_timer = @ - 1]
    ELSE g

(***************************************************************************)
(* Game.update (lines 1315-1353), the PLAYING branch                       *)
(***************************************************************************)
\* the clock advances by one frame: pygame.time.get_ticks() grows by 1000 // FPS
clock_tick(g) ==
  [g EXCEPT !.transition_age = Min(@ + 1000 \div FPS, ROOM_TRANSITION_COOLDOWN + 1)]

\* the sub-steps of a tick up to and including the drawing
\* the head of the tick: frame counter and lagged player action
begin_frame(g) ==
  [clock_tick(g) EXCEPT !.frame = @ + 1,
                        !.lagged_player_action = g.player.action,
                        !.log = empty_log(g)]

\* the sub-steps run one after the other, each on the Game object the one
\* before it left
simulate(g, in) ==
  The({ draw_game(g7) : g7 \in
      { check_exit_interaction(g6) : g6 \in
      { check_resource_collection(g5) : g5 \in
      { update_enemies(g4, in) : g4 \in
      { update_npc_position(g3) : g3 \in
      { update_npc_emotion(g2, in) : g2 \in
      { handle_playing_events(g1, in) : g1 \in {begin_frame(g)} } } } } } } })

\* faulty variant of game_over_check: the companion keeps its emotional state
\* and its cooldown over the restart
game_over_check_keeping_npc(g, pl) ==
  IF g.player.health <= 0
    THEN [reset(g, pl) EXCEPT !.npc.emotion = g.npc.emotion,
                              !.npc.emotion_lagged = g.npc.emotion_lagged,
                              !.npc.reaction = g.npc.reaction,
                              !.npc.attack_cooldown = g.npc.attack_cooldown]
    ELSE g

\* faulty variant of game_over_check: the door survives the restart
game_over_check_keeping_door(g, pl) ==
  IF g.player.health <= 0 THEN [reset(g, pl) EXCEPT !.door = g.door] ELSE g

\* the game-over check: Game.reset with placement pl when the health is used up
game_over_check(g, pl) ==
  IF g.player.health <= 0 THEN reset(g, pl) ELSE g

\* the time-limit check
time_limit_check(g) ==
  IF g.game_time_limit > 0 /\ g.frame >= g.game_time_limit * FPS
    THEN [g EXCEPT !.state = "completed"]
    ELSE g

\* the end of the tick after the drawing: the game-over check and the
\* time-limit check
end_frame(g, pl) ==
  The({ time_limit_check(g2) : g2 \in { game_over_check(g, pl) } })

\* Game.update in the PLAYING state, pl the placement Game.reset would draw
update_playing(g, in, pl) == end_frame(simulate(g, in), pl)

(***************************************************************************)
(* Game.update, the START_SCREEN and COMPLETED branches                    *)
(***************************************************************************)
\* faulty variant of handle_start_screen_event: the window can be closed
handle_start_screen_event_quitting(g, e) ==
  IF e \in {"k_return", "k_space_down"} THEN [g EXCEPT !.state = "playing"]
  ELSE IF e = "ctrl_d" THEN [g EXCEPT !.debug_mode = ~g.debug_mode]
  ELSE IF e \in {"quit", "k_escape"} THEN [g EXCEPT !.running = FALSE]
  ELSE g

\* Game.handle_start_screen_events (lines 751-765), one event
handle_start_screen_event(g, e) ==
  IF e \in {"k_return", "k_space_down"} THEN [g EXCEPT !.state = "playing"]
  ELSE IF e = "ctrl_d" THEN [g EXCEPT !.debug_mode = ~g.debug_mode]
  ELSE g

RECURSIVE handle_start_screen_events(_, _)
handle_start_screen_events(g, ev) ==
  IF ev = <<>> THEN g
  ELSE handle_start_screen_events(handle_start_screen_event(g, Head(ev)), Tail(ev))

\* faulty variant of handle_completed_screen_event: the space bar starts a
\* new game
handle_completed_screen_event_restarting(g, e) ==
  IF e \in {"quit", "k_escape"} THEN [g EXCEPT !.running = FALSE]
  ELSE IF e = "k_space_down" THEN [g EXCEPT !.state = "playing"]
  ELSE g

\* Game.handle_completed_screen_events (lines 768-779), one event
handle_completed_screen_event(g, e) ==
  IF e \in {"quit", "k_escape"} THEN [g EXCEPT !.running = FALSE] ELSE g

RECURSIVE handle_completed_screen_events(_, _)
handle_completed_screen_events(g, ev) ==
  IF ev = <<>> THEN g
  ELSE handle_completed_screen_events(handle_completed_screen_event(g, Head(ev)), Tail(ev))

\* Game.update in the START_SCREEN state
update_start_screen(g, in) ==
  [handle_start_screen_events(clock_tick(g), in.ev) EXCEPT !.log = empty_log(g)]

\* Game.update in the COMPLETED state
update_completed(g, in) ==
  [handle_completed_screen_events(clock_tick(g), in.ev) EXCEPT !.log = empty_log(g)]

(***************************************************************************)
(* The environment: placements, inputs, scenarios                          *)
(***************************************************************************)
\* the input of a frame in which the participant does nothing and every
\* random draw is neutral
idle_input ==
  [ev |-> <<>>, keys |-> {}, emo |-> "anticipation", gap |-> 0,
   jit |-> [i |-> 0, v |-> <<0, 0>>], dodge |-> [on |-> FALSE, v |-> <<0, 0>>]]

press(ev) == [idle_input EXCEPT !.ev = ev]
hold(keys) == [idle_input EXCEPT !.keys = keys]
feel(emo) == [idle_input EXCEPT !.emo = emo]

\* the inputs explored in a freely chosen frame: the idle input changed in one
\* of its components
FreeInputs ==
  {idle_input}
    \cup { hold({k}) : k \in MoveKeys }
    \cup { press(<<e>>) : e \in Events \ {"k_r", "k_return"} }
    \cup { feel(e) : e \in (NPCEmotion \ {"anticipation"}) \cup {"error"} }
    \cup { [idle_input EXCEPT !.gap = -EMOTION_CHANGE_SPREAD, !.emo = "anger"] }
    \cup { [idle_input EXCEPT !.jit = [i |-> 1, v |-> v]] : v \in {<<1, 0>>, <<0, -3>>} }
    \cup { [idle_input EXCEPT !.ev = <<"k_1">>, !.keys = {"down"}] }
    \cup { [idle_input EXCEPT !.dodge = [on |-> TRUE, v |-> <<1, 0>>]] }

\* the space bar after the events ev, held telling whether it was down before
RECURSIVE space_after(_, _)
space_after(held, ev) ==
  IF ev = <<>> THEN held
  ELSE space_after(IF Head(ev) = "k_space_down" THEN TRUE
                   ELSE IF Head(ev) = "k_space_up" THEN FALSE ELSE held, Tail(ev))

\* the keyboard can produce the events ev: the space bar goes down only when
\* up, and up only when down
RECURSIVE keyboard_ok(_, _)
keyboard_ok(held, ev) ==
  IF ev = <<>> THEN TRUE
  ELSE /\ Head(ev) = "k_space_down" => ~held
       /\ Head(ev) = "k_space_up" => held
       /\ keyboard_ok(space_after(held, <<Head(ev)>>), Tail(ev))

\* the input is one the program can receive: the jitter is within
\* +-speed/2 of the enemy it is drawn for
input_ok(g, in) ==
  /\ in.keys \subseteq MoveKeys
  /\ keyboard_ok(space_held, in.ev)
  /\ \A k \in 1..Len(in.ev) : in.ev[k] \in Events
  /\ in.emo \in NPCEmotion \cup {"error"}
  /\ in.gap \in (-EMOTION_CHANGE_SPREAD)..EMOTION_CHANGE_SPREAD
  /\ in.jit.i \in 0..N_ENEMIES
  /\ in.jit.i # 0 =>
       /\ 2 * Abs(in.jit.v[1]) <= g.enemies[in.jit.i].speed
       /\ 2 * Abs(in.jit.v[2]) <= g.enemies[in.jit.i].speed
  /\ in.jit.i = 0 => in.jit.v = <<0, 0>>
  /\ (g.emotion_system.type = "random") => in.emo \in NPCEmotion

\* n copies of the input in
RECURSIVE Repeat(_, _)
Repeat(in, n) == IF n = 0 THEN <<>> ELSE <<in>> \o Repeat(in, n - 1)

\* parking positions far from everything a scenario visits
far_1 == <<65, 635>>
far_2 == <<1335, 635>>
enemy_at(p) == [x |-> p[1], y |-> p[2], speed |-> ENEMY_SPEED]

\* the draws of one call of generate_obstacles. Room 1: three obstacles, each
\* placed at its first attempt. Room 2: four obstacles; the first attempt
\* for the 1st falls into the safe zone of the door entry, the first attempt
\* for the 3rd falls too close to the 2nd, and every attempt for the 4th
\* falls into a safe zone
draws_0 == [r \in {1, 2} |->
              IF r = 1 THEN << <<<<175, 174>>>>, <<<<325, 412>>>>, <<<<400, 600>>>> >>
                       ELSE << <<<<850, 300>>, <<1075, 338>>>>,
                               <<<<1200, 200>>>>,
                               <<<<1220, 220>>, <<1000, 600>>>>,
                               Repeat(<<850, 300>>, MAX_ATTEMPTS) >>]

\* one obstacle layout: per room, one obstacle next to a place the player
\* can stand on (the spawn in room 1, the room centres) and two elsewhere
layout_0 == generate_obstacles(draws_0)

\* two enemies and both resources of room 1 around the spawn point, one enemy
\* and one resource of room 2 around the room centre, the rest parked
placement_0 ==
  [obstacles |-> layout_0,
   enemies |-> [i \in 1..N_ENEMIES |->
                  IF i = 1 THEN enemy_at(<<175, 265>>)
                  ELSE IF i = 2 THEN enemy_at(<<230, 225>>)
                  ELSE IF i = ENEMIES_ROOM_1 + 1 THEN enemy_at(<<1075, 420>>)
                  ELSE enemy_at(IF enemy_room(i) = 1 THEN far_1 ELSE far_2)],
   resources |-> <<<<175, 250>>, <<113, 225>>, <<1075, 430>>, far_2>>]

\* every enemy of room 1 within reach of the spawn point
placement_siege ==
  [placement_0 EXCEPT
     !.enemies = [i \in 1..N_ENEMIES |->
                    IF enemy_room(i) = 1 THEN enemy_at(<<175, 265>>)
                    ELSE enemy_at(far_2)],
     !.resources = <<<<175, 250>>, <<150, 250>>, <<1075, 430>>, far_2>>]

\* as placement_0 but for enemy 1, which stands within ATTACK_RADIUS of the
\* companion's spawn point
placement_ambush ==
  [placement_0 EXCEPT !.enemies[1] = enemy_at(<<80, 150>>)]

\* everything of room 1 parked, the resources at the spawn point
placement_calm ==
  [placement_0 EXCEPT
     !.enemies = [i \in 1..N_ENEMIES |->
                    enemy_at(IF enemy_room(i) = 1 THEN far_1 ELSE far_2)],
     !.resources = <<<<175, 250>>, <<150, 250>>, <<1075, 430>>, far_2>>]

\* an obstacle on the diagonal between the spawn point and enemy 1, which
\* starts at the least distance get_valid_position allows
layout_1 ==
  generate_obstacles([draws_0 EXCEPT ![1] = << <<<<285, 335>>>>, <<<<400, 600>>>>,
                                               <<<<500, 150>>>> >>])

placement_blocked ==
  [placement_calm EXCEPT !.obstacles = layout_1,
                         !.enemies[1] = enemy_at(<<335, 385>>)]

\* enemy 1 just outside ATTACK_RADIUS of the spawn point, the others parked
placement_near ==
  [placement_calm EXCEPT !.enemies[1] = enemy_at(<<175, 286>>)]

\* both resources of room 1 out of the player's way: the door stays locked
placement_locked ==
  [placement_calm EXCEPT !.resources = <<<<100, 600>>, <<150, 600>>, <<1075, 430>>, far_2>>]

\* the door locked, enemy 1 of room 1 next to it
placement_gate ==
  [placement_locked EXCEPT !.enemies[1] = enemy_at(<<585, 375>>)]

\* n enemies of room 2 in front of the exit, the others parked; both
\* resources of room 2 on the way from the room centre to the exit
placement_exit(n) ==
  [placement_calm EXCEPT
     !.enemies = [i \in 1..N_ENEMIES |->
                    IF enemy_room(i) = 2 /\ i <= ENEMIES_ROOM_1 + n
                      THEN enemy_at(<<1320, 375>>)
                      ELSE enemy_at(IF enemy_room(i) = 1 THEN far_1 ELSE far_2)],
     !.resources = <<<<175, 250>>, <<150, 250>>, <<1200, 375>>, <<1250, 375>>>>]

\* an obstacle of room 1 just outside the corner of the safe zone of the
\* spawn area, where the companion starts
placement_cornered ==
  [placement_locked EXCEPT
     !.obstacles = generate_obstacles([draws_0 EXCEPT ![1] = << <<<<110, 160>>>>,
                                                                <<<<325, 412>>>>,
                                                                <<<<400, 600>>>> >>])]

\* the enemies of room 1 within reach of the spawn point, one enemy of room 2
\* next to the room centre and the other seven at the exit, the resources of
\* room 2 on the way from the room centre to the exit
placement_stand ==
  [placement_0 EXCEPT
     !.enemies = [i \in 1..N_ENEMIES |->
                    IF enemy_room(i) = 1 THEN enemy_at(<<175, 265>>)
                    ELSE IF i = ENEMIES_ROOM_1 + 1 THEN enemy_at(<<1075, 420>>)
                    ELSE enemy_at(<<1320, 375>>)],
     !.resources = <<<<175, 250>>, <<150, 250>>, <<1200, 375>>, <<1250, 375>>>>]

\* the placements Game.reset draws from when it runs after a death; the draw
\* has no effect in a frame without a death
ResetPlacements == {placement_0, placement_ambush}

\* the draws of the game-over check of g: Game.reset draws only after a death
game_over_draws(g) ==
  IF g.player.health <= 0 THEN { p \in ResetPlacements : placement_ok(p) }
  ELSE {placement_0}

start_input == press(<<"k_return">>)

\* the walk to the exit: both resources of room 1 picked up at the spawn
\* point, the debug key to the centre of room 2, to the right until the
\* enemies have come within reach, one attack, on to the right up to the exit
exit_walk ==
  <<start_input, idle_input, press(<<"ctrl_d", "k_2">>)>>
    \o Repeat(hold({"right"}), 34)
    \o <<[idle_input EXCEPT !.ev = <<"k_space_down">>, !.keys = {"right"}],
         [idle_input EXCEPT !.ev = <<"k_space_up">>, !.keys = {"right"}]>>
    \o Repeat(hold({"right"}), 18)

\* from the start screen to the room centre by the debug key, then to the
\* right, up to the locked door
locked_walk ==
  <<start_input, idle_input, press(<<"ctrl_d", "k_1">>)>> \o Repeat(hold({"right"}), 71)

\* the walk from the spawn point over both resources and through the door,
\* then back to the left, into the door again
door_return ==
  <<start_input>> \o Repeat(hold({"down", "right"}), 22) \o Repeat(hold({"right"}), 87)
                  \o Repeat(hold({"left"}), 14)

\* by the debug key to the centre of room 2, then to the left, towards the
\* locked door and the enemy of room 1 behind it
gate_walk ==
  <<start_input, idle_input, press(<<"ctrl_d", "k_2">>)>> \o Repeat(hold({"left"}), 65)

\* a scenario: the strategy and time limit given to the constructor, the
\* placement drawn by the first Game.reset, the scripted inputs and the
\* number of free frames that follow them
Scenario(sys, loaded, limit, place, scr, n) ==
  [sys |-> sys, loaded |-> loaded, limit |-> limit, place |-> place,
   script |-> scr, free |-> n]

Scenarios ==
  \* from construction, nothing scripted
  { Scenario(s, FALSE, 0, placement_0, <<>>, MaxFree) : s \in EmotionSystem }
  \* at the spawn point
  \cup { Scenario(s, FALSE, 0, placement_0, <<start_input>>, MaxFree) : s \in EmotionSystem }
  \cup { Scenario("machine_learning", TRUE, 0, placement_0, <<start_input>>, MaxFree) }
  \* debug mode switched on, the player moved to the centre of room 2
  \cup { Scenario(s, TRUE, 0, placement_0,
                  <<start_input, press(<<"ctrl_d", "k_2">>)>>, MaxFree) :
           s \in {"rule_based", "machine_learning"} }
  \* debug mode switched on and the door opened by the debug key at the spawn
  \* point, where both resources lie
  \cup { Scenario("rule_based", FALSE, 0, placement_calm,
                  <<start_input, press(<<"ctrl_d", "k_o">>)>>, MaxFree) }
  \* besieged at the spawn point until the health is nearly used up, the
  \* companion angry
  \cup { Scenario("machine_learning", TRUE, 0, placement_siege,
                  <<start_input>> \o Repeat(feel("anger"), 21), MaxFree) }
  \* the walk from the spawn point to the door, both resources collected
  \cup { Scenario("rule_based", FALSE, 0, placement_calm,
                  <<start_input>> \o Repeat(hold({"down", "right"}), 22)
                                  \o Repeat(hold({"right"}), 86), MaxFree) }
  \* after an attack at the spawn point, the space bar released
  \cup { Scenario("rule_based", FALSE, 0, placement_0,
                  <<start_input, press(<<"k_space_down">>), press(<<"k_space_up">>)>>,
                  MaxFree) }
  \* enemy 1 has walked towards the player up to the obstacle in its way
  \cup { Scenario("rule_based", FALSE, 0, placement_blocked,
                  <<start_input>> \o Repeat(idle_input, 25), MaxFree) }
  \* the companion follows the player to the right, past the obstacle above
  \* the spawn point
  \cup { Scenario("rule_based", FALSE, 0, placement_calm,
                  <<start_input>> \o Repeat(hold({"right"}), 8), MaxFree) }
  \* the space bar pressed at the spawn point and held, an enemy on its way
  \* into the reach of the attack
  \cup { Scenario("rule_based", FALSE, 0, placement_near,
                  <<start_input, press(<<"k_space_down">>)>>, MaxFree) }
  \* in room 2, within the detection radius of an enemy of room 1
  \cup { Scenario("rule_based", FALSE, 0, placement_gate, gate_walk, MaxFree) }
  \* at the spawn point, nothing near: the companion follows the idle player
  \cup { Scenario("rule_based", FALSE, 0, placement_locked,
                  <<start_input, idle_input, idle_input>>, MaxFree) }
  \* the first tick of play with an obstacle at the companion's spawn point
  \cup { Scenario("rule_based", FALSE, 0, placement_cornered,
                  <<start_input, idle_input>>, 0) }
  \* the random strategy while the player is besieged at the spawn point and
  \* killed: its first draw sets the least cooldown, its second draw comes 20
  \* ticks later, the player dies 2 ticks after that and the next tick draws
  \cup { Scenario("random", FALSE, 0, placement_siege,
                  <<start_input, [idle_input EXCEPT !.emo = "fear",
                                                    !.gap = -EMOTION_CHANGE_SPREAD]>>
                    \o Repeat(idle_input, 19)
                    \o <<feel("surprise"), idle_input, idle_input, feel("fear")>>, 0) }
  \* in front of the locked door
  \cup { Scenario("rule_based", FALSE, 0, placement_locked, locked_walk, MaxFree) }
  \* back in the door before the cooldown of the traversal has elapsed
  \cup { Scenario("rule_based", FALSE, 0, placement_calm, door_return, MaxFree) }
  \* at the exit with all four resources and 7 or 8 enemies killed
  \cup { Scenario("rule_based", FALSE, 0, placement_exit(n), exit_walk, MaxFree) :
           n \in {EXIT_KILLS - 1, EXIT_KILLS} }
  \* an attack at the spawn point kills the seven enemies of room 1, the debug
  \* key moves the player to the centre of room 2, an attack kills the enemy
  \* there, and the player walks to the exit through the other seven, who use
  \* up the player's health in the tick in which the player touches the exit
  \cup { Scenario("machine_learning", TRUE, 0, placement_stand,
                  <<start_input, press(<<"k_space_down">>),
                    press(<<"k_space_up", "ctrl_d", "k_2">>), press(<<"k_space_down">>),
                    [idle_input EXCEPT !.ev = <<"k_space_up">>, !.keys = {"right"}]>>
                    \o Repeat(hold({"right"}), 45) \o <<idle_input>>
                    \o Repeat(hold({"right"}), 8), MaxFree) }
  \* a time limit of one second, the player besieged at the spawn point and
  \* killed before the second is over
  \cup { Scenario("machine_learning", TRUE, 1, placement_siege,
                  <<start_input>> \o Repeat(feel("anger"), 21)
                                  \o Repeat(idle_input, FPS - 23), MaxFree) }
  \* a time limit of one second, nearly used up
  \cup { Scenario("random", FALSE, 1, placement_calm,
                  <<start_input>> \o Repeat(idle_input, FPS - 1), MaxFree) }

\* Game.__init__ (lines 103-157) for scenario sc
constructed(sc) ==
  reset([running |-> TRUE, state |-> "start_screen", frame |-> 0,
         debug_mode |-> FALSE, game_time_limit |-> sc.limit,
         resources_collected |-> 0, enemies_killed |-> 0, current_room |-> 1,
         door_unlock_effect |-> FALSE, door_unlock_timer |-> -1,
         lagged_player_action |-> "idle", player |-> <<>>, npc |-> <<>>,
         obstacles |-> <<>>, enemies |-> <<>>, resources |-> <<>>,
         door |-> [open |-> FALSE],
         emotion_system |-> [type |-> sc.sys, emotion_change_cooldown |-> 0,
                             model_loaded |-> sc.loaded],
         transition_age |-> 0,
         log |-> [reset |-> FALSE,
                  since_hit |-> [ticks |-> NPC_ATTACK_COOLDOWN, reset |-> FALSE],
                  since_change |-> [ticks |-> EMOTION_CHANGE_INTERVAL - EMOTION_CHANGE_SPREAD,
                                    reset |-> FALSE]]],
        sc.place)

\* the program's variables hold the Game object g, the log telling that
\* Game.reset has run
Holds(g) ==
  /\ running = g.running /\ state = g.state /\ frame = g.frame
  /\ debug_mode = g.debug_mode /\ game_time_limit = g.game_time_limit
  /\ resources_collected = g.resources_collected
  /\ enemies_killed = g.enemies_killed
  /\ current_room = g.current_room
  /\ door_unlock_effect = g.door_unlock_effect
  /\ door_unlock_timer = g.door_unlock_timer
  /\ lagged_player_action = g.lagged_player_action
  /\ player = g.player /\ npc = g.npc /\ obstacles = g.obstacles
  /\ enemies = g.enemies /\ resources = g.resources /\ door = g.door
  /\ emotion_system = g.emotion_system
  /\ transition_age = g.transition_age
  /\ log = [empty_log(g) EXCEPT !.reset = TRUE]

Init ==
  \E sc \in { c \in Scenarios : placement_ok(c.place) } :
     /\ \E g \in {constructed(sc)} : Holds(g)
     /\ space_held = FALSE
     /\ script = sc.script
     /\ free = sc.free
     /\ played = 0

(***************************************************************************)
(* Actions: one call of Game.update() each                                 *)
(***************************************************************************)
\* the inputs the frame can receive: the next scripted one, or a free one
\* while the scenario's free frames last
NextInputs ==
  { in \in (IF script # <<>> THEN {Head(script)}
            ELSE IF free > 0 THEN FreeInputs ELSE {}) : input_ok(Game, in) }

\* the environment after the frame's input in
TakesInput(in) ==
  /\ space_held' = space_after(space_held, in.ev)
  /\ played' = IF state = "playing" THEN played + 1 ELSE played
  /\ IF script # <<>>
       THEN script' = Tail(script) /\ free' = free
       ELSE script' = script /\ free' = free - 1

UpdateStartScreen ==
  /\ running /\ state = "start_screen"
  /\ \E in \in NextInputs :
       \E g \in {update_start_screen(Game, in)} : TakesInput(in) /\ Becomes(g)

UpdatePlaying ==
  /\ running /\ state = "playing"
  /\ \E in \in NextInputs :
       \E g1 \in {simulate(Game, in)} :
          \E pl \in game_over_draws(g1) :
             \E g \in {end_frame(g1, pl)} : TakesInput(in) /\ Becomes(g)

UpdateCompleted ==
  /\ running /\ state = "completed"
  /\ \E in \in NextInputs :
       \E g \in {update_completed(Game, in)} : TakesInput(in) /\ Becomes(g)

Next == UpdateStartScreen \/ UpdatePlaying \/ UpdateCompleted

Spec == Init /\ [][Next]_vars

(***************************************************************************)
(* Properties                                                              *)
(*                                                                         *)
(* A state of the model is a tick boundary: the program between two calls  *)
(* of Game.update(). In an action formula the unprimed variables are the   *)
(* program before a tick, the primed ones after it, and log' tells what    *)
(* happened within it.                                                     *)
(***************************************************************************)
dead_enemies == { i \in 1..N_ENEMIES : ~enemies[i].alive }

\* a mover of the given size centred at p overlaps an obstacle of room r:
\* centre distance < (OBSTACLE_SIZE + size) / 2
Overlaps(p, r, size) ==
  \E o \in obstacles[r] :
     4 * Dist2(p[1], p[2], Px(o[1]), Px(o[2]))
       < Px(OBSTACLE_SIZE + size) * Px(OBSTACLE_SIZE + size)

\* the table from emotion to reaction
ReactionOf(e) ==
  CASE e = "anticipation" -> "follow"
    [] e = "happiness" -> "notify_resource"
    [] e = "fear" -> "notify_danger"
    [] e = "anger" -> "attack_enemy"
    [] e = "surprise" -> "notify_surprise"
    [] e = "sadness" -> "provide_healing"

\* the place next to the door at which a traversal into room r puts the player
door_anchor(r) ==
  IF r = 2 THEN <<Px(room_x_offset + ROOM_WIDTH + 150 + 50), Px(room_y_offset + ROOM_HEIGHT \div 2)>>
  ELSE <<Px(room_x_offset + ROOM_WIDTH - 50), Px(room_y_offset + ROOM_HEIGHT \div 2)>>

\* C1: in every reachable state the player's health is within [0, 100], and
\* so is every value the health took within the tick before (enemy hits,
\* pickups, the companion's healing, Reset).
C1_HealthInRange ==
  /\ player.health >= 0 /\ player.health <= Hp(MAX_HEALTH)
  /\ log.health_min >= 0 /\ log.health_max <= Hp(MAX_HEALTH)

\* the tick of a death: more than one enemy hit, the hits floored at 0, and
\* Reset restored the full health
C1_Witness ==
  /\ log.reset /\ state = "playing"
  /\ Cardinality(log.hitters) > 1
  /\ log.health_min = 0
  /\ player.health = Hp(MAX_HEALTH)

\* C2: an enemy with alive = false does not damage the player and takes no
\* damage in any tick, and a tick without Reset leaves its position, its
\* health and its alive flag as they are.
C2_DeadEnemyInert ==
  [][\A i \in 1..N_ENEMIES :
        ~enemies[i].alive =>
           /\ i \notin log'.hitters
           /\ i \notin log'.damaged
           /\ ~log'.reset => enemies'[i] = enemies[i]]_vars

\* a tick in which the player attacked has passed over a dead enemy of the
\* current room within reach of the attack
C2_Witness ==
  \E i \in dead_enemies :
     /\ log.strategy_calls = 1 /\ ~log.reset
     /\ player.action = "attack"
     /\ enemies[i].room = current_room
     /\ Closer(player.x, player.y, enemies[i].x, enemies[i].y, ATTACK_RADIUS)
     /\ i \notin log.damaged

\* C3: in every reachable state the kill counter equals the number of
\* enemies with alive = false.
C3_KillCounter == enemies_killed = Cardinality(dead_enemies)

\* every enemy of room 1 is dead, one of them hit by the companion first and
\* by the player afterwards
C3_Witness ==
  /\ enemies_killed = ENEMIES_ROOM_1
  /\ \E i \in dead_enemies :
        enemies[i].health = ENEMY_START_HEALTH - NPC_DAMAGE - PLAYER_DAMAGE

\* no tick takes a collected flag back or lowers a cumulative counter
Monotone ==
  /\ \A i \in 1..N_RESOURCES : resources[i].collected => resources'[i].collected
  /\ resources_collected' >= resources_collected
  /\ enemies_killed' >= enemies_killed

\* C4: over the ticks of a session (a session ends with the Reset that the
\* player's death brings, and the next one begins) a collected resource never
\* becomes uncollected again and resources_collected and enemies_killed
\* never decrease from one tick to the next.
C4_MonotoneInSession == [][~log'.reset => Monotone]_vars

\* a resource is collected and enemies are killed, and a later tick with an
\* attack that killed nobody has left the counters standing
C4_Witness ==
  /\ resources_collected >= 1 /\ enemies_killed >= 2
  /\ \E i \in 1..N_RESOURCES : resources[i].collected
  /\ log.strategy_calls = 1 /\ ~log.reset
  /\ player.action = "attack" /\ log.damaged = {}

\* C5: during a session (up to the Reset that ends it) the door's open flag
\* never changes from true back to false, so that it changes from false to
\* true at most once.
C5_DoorOpensOnce == [][~log'.reset => (door.open => door'.open)]_vars

\* the player has walked through the door, which is still open
C5_Witness == door.open /\ log.traversed /\ ~log.reset

\* C6 as stated: at every tick boundary door.open is true if and only if
\* resources_collected is at least 2.
C6_Original == door.open <=> resources_collected >= DOOR_RESOURCES

\* C6: at every tick boundary resources_collected >= 2 implies door.open, and
\* the door changes from closed to open only in a tick that ends with
\* resources_collected >= 2 or in which the debug key O was handled in debug
\* mode.
C6_DoorFollowsResources ==
  [][/\ resources_collected' >= DOOR_RESOURCES => door'.open
     /\ (~door.open /\ door'.open) =>
           \/ resources_collected' >= DOOR_RESOURCES
           \/ "k_o" \in log'.debug_keys]_vars

\* the second resource has just been collected and opened the door, no debug
\* key involved
C6_Witness ==
  /\ resources_collected = DOOR_RESOURCES /\ door.open /\ door_unlock_effect
  /\ log.debug_keys = {} /\ ~debug_mode
  /\ log.health_max > log.health_min

\* the tick collects the resource that brings the count to 2
SecondCollected ==
  resources_collected < DOOR_RESOURCES /\ resources_collected' >= DOOR_RESOURCES

\* what a traversal leaves behind: the effect flag off, the player at the
\* anchor of the room entered, the companion put 30 to the player's left
Traversed ==
  /\ ~door_unlock_effect'
  /\ <<player'.x, player'.y>> = door_anchor(current_room')
  /\ log'.at_traverse = <<player'.x - Px(30), player'.y>>

\* C7 as stated, for the ticks of a session: collecting the 2nd resource sets
\* door.open and door_unlock_effect in the same step; the flag stays true on
\* every tick until the first traversal; the traversal sets the flag false,
\* flips current_room and places the player at the anchor and the companion
\* 30 to the player's left.
C7_Original ==
  [][~log'.reset =>
       /\ SecondCollected => door'.open /\ door_unlock_effect'
       /\ (door_unlock_effect /\ ~log'.traversed) => door_unlock_effect'
       /\ log'.traversed => Traversed /\ current_room' # current_room]_vars

\* C7: collecting the 2nd resource while the door is closed (not opened
\* before by the debug key O) sets door.open and door_unlock_effect in the
\* same step; the flag stays true on every tick until the first traversal or
\* the Reset that ends the session, and a tick in which Reset runs ends with
\* the flag false; a traversal sets the flag false, flips current_room, and
\* places the player at the anchor of the room entered and the companion 30
\* to the player's left at the same height.
C7_UnlockEffect ==
  [][IF log'.reset THEN ~door_unlock_effect'
     ELSE /\ (SecondCollected /\ ~door.open /\ "k_o" \notin log'.debug_keys)
               => door'.open /\ door_unlock_effect'
          /\ (door_unlock_effect /\ ~log'.traversed) => door_unlock_effect'
          /\ log'.traversed => Traversed /\ current_room' # current_room]_vars

\* the first traversal: the player stands at the anchor of room 2, the flag
\* that the 2nd resource had set is off
C7_Witness ==
  /\ log.traversed /\ ~log.reset
  /\ current_room = 2 /\ <<player.x, player.y>> = door_anchor(2)
  /\ resources_collected >= DOOR_RESOURCES /\ door.open /\ ~door_unlock_effect

\* C8 as stated: for the player, the companion and every enemy, a computed
\* position that overlaps an obstacle of the current room leaves the mover at
\* its pre-tick position before the room clamp.
C8_Original ==
  [][/\ Overlaps(log'.player_move.to, log'.player_move.room, PLAYER_SIZE)
          => log'.player_move.at = <<player.x, player.y>>
     /\ Overlaps(log'.npc_move.to, log'.npc_move.room, NPC_SIZE)
          => log'.npc_move.at = <<npc.x, npc.y>>
     /\ \A i \in 1..N_ENEMIES :
          Overlaps(log'.enemy_to[i], log'.npc_move.room, ENEMY_SIZE)
             => log'.enemy_at[i] = <<enemies[i].x, enemies[i].y>>]_vars

\* the centre of room r, where the debug keys 1 and 2 put the player
room_centre(r) == <<Px(rooms[r].x + ROOM_WIDTH \div 2), Px(rooms[r].y + ROOM_HEIGHT \div 2)>>

\* C8: a computed position that overlaps an obstacle of the current room is
\* rejected. The companion is then at its pre-tick position before the room
\* clamp. So is the player, unless a debug key (1 or 2, in debug mode) has
\* moved the player in this tick: then the player is at the centre of the
\* room the key selects. An enemy is then, before the room clamp, at its
\* pre-tick position or at a position free of obstacles within its random
\* jitter (speed / 2 on each axis) of its pre-tick position.
C8_Rejection ==
  [][/\ Overlaps(log'.player_move.to, log'.player_move.room, PLAYER_SIZE)
          => IF log'.debug_keys \cap {"k_1", "k_2"} = {}
               THEN log'.player_move.at = <<player.x, player.y>>
               ELSE log'.player_move.at = room_centre(log'.player_move.room)
     /\ Overlaps(log'.npc_move.to, log'.npc_move.room, NPC_SIZE)
          => log'.npc_move.at = <<npc.x, npc.y>>
     /\ \A i \in 1..N_ENEMIES :
          Overlaps(log'.enemy_to[i], log'.npc_move.room, ENEMY_SIZE)
             => \/ log'.enemy_at[i] = <<enemies[i].x, enemies[i].y>>
                \/ /\ ~Overlaps(log'.enemy_at[i], log'.npc_move.room, ENEMY_SIZE)
                   /\ 2 * Abs(log'.enemy_at[i][1] - enemies[i].x) <= enemies[i].speed
                   /\ 2 * Abs(log'.enemy_at[i][2] - enemies[i].y) <= enemies[i].speed]_vars

\* the player's step into an obstacle was rejected
C8_Witness ==
  /\ log.rejected # {}
  /\ Overlaps(log.player_move.to, log.player_move.room, PLAYER_SIZE)
  /\ log.player_move.at = log.player_move.from
  /\ log.player_move.to # log.player_move.from
  /\ <<player.x, player.y>> = log.player_move.from

\* C9: at every tick boundary the companion's reaction is the table's entry
\* for its current emotion: anticipation -> follow, happiness ->
\* notify_resource, fear -> notify_danger, anger -> attack_enemy, surprise ->
\* notify_surprise, sadness -> provide_healing.
C9_ReactionTable == npc.reaction = ReactionOf(npc.emotion)

\* the emotion has just changed to sadness from an emotion with another
\* reaction
C9_Witness ==
  /\ npc.emotion = "sadness" /\ npc.reaction = "provide_healing"
  /\ npc.emotion_lagged = "anger"
  /\ log.strategy_calls = 1

\* C10: in the state a Reset leaves (at construction or after a death) the
\* companion has emotion anticipation, lagged emotion anticipation, reaction
\* follow and attack cooldown 0.
C10_ResetCompanion ==
  log.reset =>
    /\ npc.emotion = "anticipation" /\ npc.emotion_lagged = "anticipation"
    /\ npc.reaction = "follow" /\ npc.attack_cooldown = 0

\* the Reset after a death
C10_Witness ==
  /\ log.reset /\ state = "playing" /\ log.health_min = 0
  /\ log.strategy_calls = 1
  /\ npc.emotion = "anticipation" /\ npc.attack_cooldown = 0

\* C11: every enemy's health stays within [0, 100] in every reachable state,
\* also for an enemy damaged by the companion first and hit by a player
\* attack afterwards.
C11_EnemyHealthInRange ==
  \A i \in 1..N_ENEMIES :
     enemies[i].health >= 0 /\ enemies[i].health <= ENEMY_START_HEALTH

(***************************************************************************)
(* The rule-based strategy on its own                                      *)
(*                                                                         *)
(* RuleSpec starts in the middle of a game of the rule-based condition,    *)
(* with the inputs of the strategy drawn from the cases below, and takes   *)
(* the one step Game.update_npc_emotion.                                   *)
(***************************************************************************)
\* the player's health at the call, in health units: around the threshold of
\* 30, nearly used up, full
RuleHealths == {ENEMY_DAMAGE, Hp(RULE_LOW_HEALTH) - ENEMY_DAMAGE, Hp(RULE_LOW_HEALTH),
                Hp(RULE_LOW_HEALTH) + ENEMY_DAMAGE, Hp(MAX_HEALTH)}
\* the distance in pixels from the player to the nearest alive enemy of the
\* room, around both thresholds; 0: every enemy of the room is dead
RuleEnemyDistances ==
  {0, RULE_ENEMY_CLOSE - 1, RULE_ENEMY_CLOSE, RULE_ENEMY_MEDIUM - 1, RULE_ENEMY_MEDIUM}
\* the distance in pixels from the player to the nearest resource
RuleResourceDistances == {RULE_RESOURCE_NEAR - 1, RULE_RESOURCE_NEAR}
\* the distance in pixels from the player to the companion
RuleNpcDistances == {RULE_SURPRISE_RANGE - 1, RULE_SURPRISE_RANGE}

\* the Game object g0 after some play: the player at the spawn point with
\* health h and action act, the nearest enemy ed to the right, the nearest
\* resource rd below, the companion nd to the left
rule_case_of(g0, h, act, ed, rd, nd) ==
  [g0 EXCEPT
     !.state = "playing",
     !.frame = 1,
     !.player.health = h,
     !.player.action = act,
     !.player.enemies_killed = IF ed = 0 THEN ENEMIES_ROOM_1 ELSE 0,
     !.enemies_killed = IF ed = 0 THEN ENEMIES_ROOM_1 ELSE 0,
     !.enemies = [i \in 1..N_ENEMIES |->
                    IF enemy_room(i) = 1 /\ ed = 0
                      THEN [g0.enemies[i] EXCEPT !.alive = FALSE, !.health = 0]
                    ELSE IF i = 1
                      THEN [g0.enemies[i] EXCEPT !.x = g0.player.x + Px(ed),
                                                 !.y = g0.player.y]
                    ELSE g0.enemies[i]],
     !.resources[1].x = g0.player.x,
     !.resources[1].y = g0.player.y + Px(rd),
     !.resources[2].x = Px(far_1[1]),
     !.resources[2].y = Px(far_1[2]),
     !.npc.x = g0.player.x - Px(nd),
     !.npc.y = g0.player.y,
     !.log = empty_log([g0 EXCEPT !.player.health = h])]

rule_case(h, act, ed, rd, nd) ==
  rule_case_of(constructed(Scenario("rule_based", FALSE, 0, placement_calm, <<>>, 0)),
               h, act, ed, rd, nd)

\* the program's variables hold the Game object g
Stands(g) ==
  /\ running = g.running /\ state = g.state /\ frame = g.frame
  /\ debug_mode = g.debug_mode /\ game_time_limit = g.game_time_limit
  /\ resources_collected = g.resources_collected
  /\ enemies_killed = g.enemies_killed
  /\ current_room = g.current_room
  /\ door_unlock_effect = g.door_unlock_effect
  /\ door_unlock_timer = g.door_unlock_timer
  /\ lagged_player_action = g.lagged_player_action
  /\ player = g.player /\ npc = g.npc /\ obstacles = g.obstacles
  /\ enemies = g.enemies /\ resources = g.resources /\ door = g.door
  /\ emotion_system = g.emotion_system
  /\ transition_age = g.transition_age
  /\ log = g.log

RuleInit ==
  /\ \E h \in RuleHealths, act \in PlayerAction, ed \in RuleEnemyDistances,
        rd \in RuleResourceDistances, nd \in RuleNpcDistances :
        \E g \in {rule_case(h, act, ed, rd, nd)} : Stands(g)
  /\ space_held = FALSE
  /\ script = <<>>
  /\ free = 0
  /\ played = 0

\* Game.update_npc_emotion, called once
DetermineEmotion ==
  /\ log.strategy_calls = 0
  /\ \E g \in {update_npc_emotion(Game, idle_input)} : Becomes(g)
  /\ UNCHANGED <<space_held, script, free, played>>

RuleSpec == RuleInit /\ [][DetermineEmotion]_vars

\* the distances the strategy is called with, squared and in position units
rule_enemy_proximity == get_nearest_enemy_distance(Game)
rule_resource_proximity == get_nearest_resource_distance(Game)
\* the conditions of the rules, on the inputs of the call
rule_low_health == player.health <= Hp(RULE_LOW_HEALTH)
rule_surprised ==
  /\ player.action = "attack"
  /\ Closer(player.x, player.y, npc.x, npc.y, RULE_SURPRISE_RANGE)
rule_called == log.strategy_calls = 1

\* C12: for every input with player_health <= 30, the rule-based
\* determine_emotion returns sadness, whatever the enemy distance, resource
\* distance, player action and positions are.
C12_LowHealthSadness == (rule_called /\ rule_low_health) => npc.emotion = "sadness"

\* a call with health exactly 30, an attack next to the companion and an
\* enemy within 60: every other rule matches as well
C12_Witness ==
  /\ rule_called /\ player.health = Hp(RULE_LOW_HEALTH)
  /\ rule_surprised
  /\ Within(rule_enemy_proximity, RULE_ENEMY_CLOSE)
  /\ Within(rule_resource_proximity, RULE_RESOURCE_NEAR)
  /\ npc.emotion = "sadness"

\* the emotion of the highest-priority rule that matches: low health, attack
\* near the companion, enemy within 60, enemy within 125, resource within 150
RulePriority ==
  IF rule_low_health THEN "sadness"
  ELSE IF rule_surprised THEN "surprise"
  ELSE IF Within(rule_enemy_proximity, RULE_ENEMY_CLOSE) THEN "anger"
  ELSE IF Within(rule_enemy_proximity, RULE_ENEMY_MEDIUM) THEN "fear"
  ELSE IF Within(rule_resource_proximity, RULE_RESOURCE_NEAR) THEN "happiness"
  ELSE "anticipation"

\* C13: the rule-based determine_emotion returns the emotion of the
\* highest-priority rule that matches, in the order sadness > surprise >
\* anger > fear > happiness > anticipation; an enemy within 60 yields anger
\* over happiness and fear when neither surprise nor sadness applies.
C13_RulePriority == rule_called => npc.emotion = RulePriority

\* an enemy within 60 and a resource within 150, neither low health nor an
\* attack: anger
C13_Witness ==
  /\ rule_called /\ ~rule_low_health /\ ~rule_surprised
  /\ Within(rule_enemy_proximity, RULE_ENEMY_CLOSE)
  /\ Within(rule_resource_proximity, RULE_RESOURCE_NEAR)
  /\ npc.emotion = "anger"

\* a resource within 150 and no enemy within 125
rule_resource_only ==
  /\ Within(rule_resource_proximity, RULE_RESOURCE_NEAR)
  /\ ~Within(rule_enemy_proximity, RULE_ENEMY_MEDIUM)

\* C14 as stated: for every input with resource distance < 150 and enemy
\* distance >= 125, the rule-based determine_emotion returns happiness.
C14_Original == (rule_called /\ rule_resource_only) => npc.emotion = "happiness"

\* C14: for every input with resource distance < 150, enemy distance >= 125,
\* player health > 30 and no attack of the player within 60 of the
\* companion, the rule-based determine_emotion returns happiness; with
\* health <= 30 it returns sadness, else with such an attack surprise.
C14_ResourceHappiness ==
  (rule_called /\ rule_resource_only) =>
     npc.emotion = IF rule_low_health THEN "sadness"
                   ELSE IF rule_surprised THEN "surprise"
                   ELSE "happiness"

\* a resource at 149, the nearest enemy at exactly 125, full health, the
\* player moving: happiness
C14_Witness ==
  /\ rule_called /\ rule_resource_only
  /\ player.health = Hp(MAX_HEALTH) /\ player.action = "move"
  /\ rule_enemy_proximity = Px(RULE_ENEMY_MEDIUM) * Px(RULE_ENEMY_MEDIUM)
  /\ npc.emotion = "happiness"

\* the player's rectangle (PLAYER_SIZE square around its centre p) overlaps
\* the exit rectangle
ExitOverlap(p) ==
  /\ 2 * p[1] + Px(PLAYER_SIZE) > 2 * Px(exit_rect.x)
  /\ 2 * p[1] - Px(PLAYER_SIZE) < 2 * Px(exit_rect.x + exit_rect.width)
  /\ 2 * p[2] + Px(PLAYER_SIZE) > 2 * Px(exit_rect.y)
  /\ 2 * p[2] - Px(PLAYER_SIZE) < 2 * Px(exit_rect.y + exit_rect.height)

\* C15: check_exit_interaction sets the state to completed only when, in
\* that tick, current_room is 2, the player's rectangle overlaps the exit
\* rectangle, enemies_killed >= 8 and resources_collected >= 4; in room 1 it
\* never changes the state.
C15_ExitGate ==
  /\ log.exit.granted =>
       /\ log.exit.room = 2
       /\ ExitOverlap(log.exit.at)
       /\ log.exit.killed >= EXIT_KILLS
       /\ log.exit.collected >= EXIT_RESOURCES
       /\ state = "completed"
  /\ log.exit.room = 1 => ~log.exit.granted

\* the player has reached the exit with 8 kills and 4 resources
C15_Witness ==
  /\ log.exit.granted /\ state = "completed"
  /\ log.exit.killed = EXIT_KILLS /\ log.exit.collected = EXIT_RESOURCES

\* C16: one pair of thresholds is applied at the exit: whenever the player
\* touches the exit in room 2 and completion is denied, the shortfall
\* (missing_resources, missing_enemies) computed is not (0, 0).
C16_ConsistentThresholds ==
  (log.exit.touched /\ log.exit.room = 2 /\ ~log.exit.granted)
     => log.exit.missing # <<0, 0>>

\* the alive enemies of the current room within ATTACK_RADIUS of the player
in_reach ==
  { i \in 1..N_ENEMIES :
      /\ enemies[i].alive /\ enemies[i].room = current_room
      /\ Closer(player.x, player.y, enemies[i].x, enemies[i].y, ATTACK_RADIUS) }

\* C17: on every PLAYING tick in which the player's intent is attack (the
\* key pressed in this tick, or held down since an earlier one), every alive
\* enemy of the current room that is within ATTACK_RADIUS of the player when
\* the tick begins takes the player's damage in that tick.
C17_AttackWhileIntent ==
  [][(state = "playing" /\ player'.action = "attack"
        /\ log'.debug_keys = {} /\ ~log'.reset)
       => \A i \in in_reach : i \in log'.damaged]_vars

\* Game.is_player_at_door for a player standing at p
AtDoor(p) ==
  /\ Abs(2 * p[1] - Px(2 * door_rect.x + door_rect.width)) < Px(door_rect.width + PLAYER_SIZE)
  /\ Abs(2 * p[2] - Px(2 * door_rect.y + door_rect.height)) < Px(door_rect.height + PLAYER_SIZE)

\* C18: a PLAYING tick in which the player, after the move and the obstacle
\* check, is at the door while the door is locked ends with the player 10
\* pixels back along the horizontal axis: x - 10 if left of the door, x + 10
\* otherwise.
C18_LockedDoorPush ==
  [][(state = "playing" /\ ~log'.reset /\ ~door.open /\ ~door'.open
        /\ log'.debug_keys = {} /\ AtDoor(log'.player_move.at))
       => /\ player'.y = log'.player_move.at[2]
          /\ player'.x = IF log'.player_move.at[1] < Px(door_rect.x)
                           THEN log'.player_move.at[1] - Px(10)
                           ELSE log'.player_move.at[1] + Px(10)]_vars

\* the point <<x, y>> lies in the current room's rectangle inset by size // 2
InRoom(x, y, size) ==
  /\ x >= Px(rooms[current_room].x + size \div 2)
  /\ x <= Px(rooms[current_room].x + rooms[current_room].width - size \div 2)
  /\ y >= Px(rooms[current_room].y + size \div 2)
  /\ y <= Px(rooms[current_room].y + rooms[current_room].height - size \div 2)

\* the enemies update_enemies simulates: alive and of the current room
simulated == { i \in 1..N_ENEMIES : enemies[i].alive /\ enemies[i].room = current_room }

\* C19: at the end of every PLAYING tick the player, the companion and every
\* simulated enemy lie inside the current room's rectangle inset by half
\* their own size, the ticks with the player at the open door before the
\* cooldown of the door has elapsed included.
C19_MoversInRoom ==
  state = "playing" =>
    /\ InRoom(player.x, player.y, PLAYER_SIZE)
    /\ InRoom(npc.x, npc.y, NPC_SIZE)
    /\ \A i \in simulated : InRoom(enemies[i].x, enemies[i].y, ENEMY_SIZE)

\* the time since the previous traversal when the tick handles its events,
\* in ms, capped above the cooldown
age_in_tick == Min(transition_age + 1000 \div FPS, ROOM_TRANSITION_COOLDOWN + 1)

\* C20: a tick of a session traverses the door only if the door is open, the
\* player is at the door after its move and more than 500 ms have passed
\* since the previous traversal; the traversal flips current_room between 1
\* and 2 and restarts the time since the last traversal, which nothing else
\* sets back, so two consecutive traversals are more than 500 ms apart.
C20_Traversal ==
  [][~log'.reset =>
       /\ log'.traversed =>
            /\ state = "playing"
            /\ door'.open
            /\ AtDoor(log'.player_move.at)
            /\ age_in_tick > ROOM_TRANSITION_COOLDOWN
            /\ current_room' = (IF current_room = 1 THEN 2 ELSE 1)
            /\ transition_age' = 0
       /\ ~log'.traversed => transition_age' >= transition_age]_vars

\* the player has come back through the door into room 1, the debug keys
\* unused: the second traversal of the session
C20_Witness ==
  /\ log.traversed /\ ~log.reset /\ ~debug_mode
  /\ current_room = 1 /\ door.open /\ transition_age = 0
  /\ <<player.x, player.y>> = door_anchor(1)

\* C21: with a time limit T > 0 the state is COMPLETED once T * FPS PLAYING
\* ticks have run since play began, whatever happened in them, the death of
\* the player included.
C21_TimeLimit ==
  (game_time_limit > 0 /\ played >= game_time_limit * FPS) => state = "completed"

\* C22: the depletion of the player's health is terminal: a PLAYING tick in
\* which the health has reached 0, so that the game-over check fires, leaves
\* the PLAYING state, and no simulation tick follows it.
C22_DeathIsTerminal ==
  [][(state = "playing" /\ log'.health_min = 0 /\ log'.reset) => state' # "playing"]_vars

\* the entity set as Game.reset creates it
fresh ==
  /\ player.health = Hp(PLAYER_START_HEALTH)
  /\ player.resources_collected = 0 /\ player.enemies_killed = 0
  /\ resources_collected = 0 /\ enemies_killed = 0
  /\ ~door.open /\ ~door_unlock_effect
  /\ current_room = 1
  /\ DOMAIN enemies = 1..(ENEMIES_ROOM_1 + ENEMIES_ROOM_2)
  /\ \A i \in DOMAIN enemies : enemies[i].alive /\ enemies[i].health = ENEMY_START_HEALTH
  /\ DOMAIN resources = 1..(2 * RESOURCES_PER_ROOM)
  /\ \A i \in DOMAIN resources : ~resources[i].collected
  /\ frame = 0

\* C23: at every tick boundary the player's health is above 0, so a tick
\* whose sub-steps use the health up has run Reset; and the state a Reset
\* leaves holds the whole entity set recreated: health 100, the counters 0,
\* the door closed, the unlock effect off, room 1, 15 alive enemies with
\* health 100, 4 uncollected resources, frame 0.
C23_AtomicReset ==
  /\ player.health > 0
  /\ log.reset => fresh

\* the Reset after a death in a tick past the 20th, the door having been open
C23_Witness ==
  /\ log.reset /\ log.health_min = 0 /\ state = "playing"
  /\ played > 20 /\ frame = 0 /\ ~door.open /\ log.exit.collected = DOOR_RESOURCES

\* room r is not the current room, neither before nor after the tick
elsewhere(r) == r # current_room /\ r # current_room'

\* C24: a tick without Reset leaves every entity of a room that is not the
\* current one unchanged: such an enemy keeps its position, health and alive
\* flag and deals no damage, and such a resource is not collected.
C24_OtherRoomUntouched ==
  [][~log'.reset =>
       /\ \A i \in 1..N_ENEMIES :
            elsewhere(enemies[i].room) => enemies'[i] = enemies[i] /\ i \notin log'.hitters
       /\ \A j \in 1..N_RESOURCES :
            elsewhere(resources[j].room) => resources'[j] = resources[j]]_vars

\* the player in room 2, an alive enemy of room 1 within the detection radius
C24_Witness ==
  /\ state = "playing" /\ current_room = 2 /\ played > 1 /\ ~log.reset
  /\ \E i \in 1..N_ENEMIES :
       /\ enemies[i].room = 1 /\ enemies[i].alive
       /\ Closer(player.x, player.y, enemies[i].x, enemies[i].y, ENEMY_DETECTION_RADIUS)

\* C25: on every PLAYING tick the strategy is called with the companion's
\* emotion and the player's action of the end of the tick before as its
\* lagged arguments, and the label it returns is the companion's emotion
\* from then on: at the end of a tick without Reset the companion's emotion
\* is the label returned and its lagged emotion the emotion of the tick
\* before.
C25_LaggedInputs ==
  [][state = "playing" =>
       /\ log'.strategy_calls = 1
       /\ log'.strategy_args.npc_emotion_lagged = npc.emotion
       /\ log'.strategy_args.lagged_player_action = player.action
       /\ ~log'.reset =>
            /\ npc'.emotion = log'.strategy_returned
            /\ npc'.emotion_lagged = npc.emotion
            /\ lagged_player_action' = player.action]_vars

\* a tick that began with the space bar held, in which the companion's
\* emotion changed
C25_Witness ==
  /\ state = "playing" /\ ~log.reset /\ log.strategy_calls = 1
  /\ log.strategy_args.lagged_player_action = "attack"
  /\ log.strategy_args.npc_emotion_lagged # "anticipation"
  /\ npc.emotion_lagged = log.strategy_args.npc_emotion_lagged
  /\ npc.emotion # npc.emotion_lagged

\* C26: every PLAYING tick calls the strategy exactly once, and the call
\* leaves the entity store (player, the companion's position and cooldown,
\* enemies, resources, door, room, counters) as it was, whichever of the
\* three strategies decides.
C26_StrategyOnceAndPure ==
  [][state = "playing" => log'.strategy_calls = 1 /\ log'.strategy_kept]_vars

\* a call between two attacks of the companion that changed the emotion
C26_Witness ==
  /\ state = "playing" /\ ~log.reset /\ log.strategy_calls = 1 /\ log.strategy_kept
  /\ npc.attack_cooldown > 0 /\ npc.attack_cooldown < NPC_ATTACK_COOLDOWN - 1
  /\ npc.emotion # npc.emotion_lagged

\* the strategy is MLEmotionSystem with its model loaded
ml_loaded == emotion_system.type = "machine_learning" /\ emotion_system.model_loaded

\* C27: a tick in which the prediction of the loaded model fails runs to its
\* end like any other: the strategy returns the lagged emotion it was given,
\* so the companion's emotion is the one of the tick before.
C27_PredictionFailure ==
  [][(state = "playing" /\ ml_loaded /\ log'.strategy_predicted = "error") =>
       /\ log'.strategy_calls = 1
       /\ log'.strategy_returned = log'.strategy_args.npc_emotion_lagged
       /\ log'.strategy_returned = npc.emotion
       /\ ~log'.reset => npc'.emotion = npc.emotion /\ frame' = frame + 1]_vars

\* a failed prediction while the companion is angry
C27_Witness ==
  /\ state = "playing" /\ ml_loaded /\ ~log.reset
  /\ log.strategy_predicted = "error" /\ log.strategy_calls = 1
  /\ npc.emotion = "anger" /\ npc.emotion_lagged = "anger"

(***************************************************************************)
(* MLEmotionSystem without its model                                       *)
(*                                                                         *)
(* FallbackSpec starts from the cases of RuleSpec in a game of the         *)
(* machine-learning condition whose model could not be loaded, and takes   *)
(* the one step Game.update_npc_emotion.                                   *)
(***************************************************************************)
fallback_case(h, act, ed, rd, nd) ==
  rule_case_of(constructed(Scenario("machine_learning", FALSE, 0, placement_calm, <<>>, 0)),
               h, act, ed, rd, nd)

FallbackInit ==
  /\ \E h \in RuleHealths, act \in PlayerAction, ed \in RuleEnemyDistances,
        rd \in RuleResourceDistances, nd \in RuleNpcDistances :
        \E g \in {fallback_case(h, act, ed, rd, nd)} : Stands(g)
  /\ space_held = FALSE
  /\ script = <<>>
  /\ free = 0
  /\ played = 0

FallbackSpec == FallbackInit /\ [][DetermineEmotion]_vars

\* the strategy is MLEmotionSystem, its model not loaded
ml_unloaded == emotion_system.type = "machine_learning" /\ ~emotion_system.model_loaded

StopEvents == {"quit", "k_escape", "k_r"}

\* C29: the run loop is stopped at the completion screen only: running is
\* false only in the state COMPLETED, and a quit, escape or restart event
\* handled in START_SCREEN or PLAYING leaves the whole Game object, with
\* running, state and the entity store, as it was.
C29_StopOnlyWhenCompleted ==
  /\ ~running => state = "completed"
  /\ state = "start_screen" =>
       \A e \in StopEvents : handle_start_screen_events(Game, <<e>>) = Game
  /\ state = "playing" =>
       \A e \in StopEvents : handle_playing_event_loop(Game, <<e>>) = Game

\* the run loop stopped at the completion screen
C29_Witness == ~running /\ state = "completed" /\ played > 0

\* C30: the player's attack kills with one hit: in a tick in which the space
\* bar is pressed, check_attack runs on the positions the tick began with,
\* and every enemy that was alive, in the current room and within
\* ATTACK_RADIUS of the player has taken the damage and is not alive when
\* the tick ends, whatever its health was.
C30_OneHitKill ==
  [][(state = "playing" /\ player.action # "attack" /\ player'.action = "attack"
        /\ log'.debug_keys = {} /\ ~log'.reset)
       => \A i \in in_reach : i \in log'.damaged /\ ~enemies'[i].alive]_vars

\* the tick of an attack that killed an enemy of full health
C30_Witness ==
  /\ state = "playing" /\ ~log.reset
  /\ player.action = "attack" /\ lagged_player_action # "attack"
  /\ \E i \in log.damaged :
       /\ ~enemies[i].alive /\ enemies[i].health = ENEMY_START_HEALTH - PLAYER_DAMAGE
       /\ Closer(player.x, player.y, enemies[i].x, enemies[i].y, ATTACK_RADIUS)

\* what the tick recorded in l did to the companion's distance from a player
\* standing at p: "hold" (position computed = position saved), "approach"
\* or "retreat"
npc_did(l, p) ==
  IF l.npc_move.to = l.npc_move.from THEN "hold"
  ELSE IF Dist2(l.npc_move.to[1], l.npc_move.to[2], p[1], p[2])
            < Dist2(l.npc_move.from[1], l.npc_move.from[2], p[1], p[2])
    THEN "approach" ELSE "retreat"

\* the tick recorded in l was a tick of play with the companion following a
\* player who stood still at p, and no position was refused
follow_tick(l, n, p) ==
  /\ ~l.reset /\ l.strategy_calls = 1 /\ n.reaction = "follow"
  /\ l.rejected = {} /\ l.debug_keys = {} /\ ~l.traversed
  /\ l.player_move.from = p /\ l.player_move.at = p

\* C31: while the companion follows a player who stands still and no position
\* is refused, a tick in which it approached is not followed by one in which
\* it retreats, nor the reverse, and a tick that left it unmoved is followed
\* by a tick that leaves it unmoved.
C31_NoOscillation ==
  [][(state = "playing" /\ follow_tick(log, npc, <<player.x, player.y>>)
        /\ follow_tick(log', npc', <<player.x, player.y>>)
        /\ <<player'.x, player'.y>> = <<player.x, player.y>>)
       => /\ npc_did(log, <<player.x, player.y>>) = "hold"
               => npc_did(log', <<player.x, player.y>>) = "hold"
          /\ npc_did(log, <<player.x, player.y>>) = "approach"
               => npc_did(log', <<player.x, player.y>>) # "retreat"
          /\ npc_did(log, <<player.x, player.y>>) = "retreat"
               => npc_did(log', <<player.x, player.y>>) # "approach"]_vars

\* the companion hit an enemy in the tick recorded in l
npc_struck(l) == l.since_hit.ticks = 0

pursuit_chain(j, p, v) ==
  LET sx == StepAlong(p[1] - j[1], p[1] - j[1], p[2] - j[2], v)
      sy == StepAlong(p[2] - j[2], p[1] - j[1], p[2] - j[2], v)
  IN <<<<j[1] + sx, j[2] + sy>>, <<j[1] + sx, j[2]>>, <<j[1], j[2] + sy>>>>

\* the candidates of chain c that are free of the obstacles of room r
free_of(c, r) == { k \in 1..3 : ~Overlaps(c[k], r, ENEMY_SIZE) }

\* enemy i is simulated in the tick that ends in the primed state and, after
\* its jitter, within the detection radius of the player
pursuing(i) ==
  /\ enemies'[i].alive /\ enemies'[i].room = current_room'
  /\ Closer(player'.x, player'.y, log'.enemy_jit[i][1], log'.enemy_jit[i][2],
            ENEMY_DETECTION_RADIUS)
  /\ log'.enemy_jit[i] # <<player'.x, player'.y>>

\* C33 as stated: the first valid candidate of the chain full vector,
\* horizontal only, vertical only, random heading becomes the position of an
\* enemy within the detection radius, and with no valid candidate the enemy
\* ends the tick at its pre-tick position.
C33_Original ==
  [][(state = "playing" /\ ~log'.reset) =>
       \A i \in 1..N_ENEMIES : pursuing(i) =>
          \E c \in {pursuit_chain(log'.enemy_jit[i], <<player'.x, player'.y>>, enemies[i].speed)} :
             IF free_of(c, current_room') # {}
               THEN <<enemies'[i].x, enemies'[i].y>> = c[MinOf(free_of(c, current_room'))]
             ELSE IF ~Overlaps(log'.enemy_to[i], current_room', ENEMY_SIZE)
               THEN <<enemies'[i].x, enemies'[i].y>> = log'.enemy_to[i]
             ELSE <<enemies'[i].x, enemies'[i].y>> = <<enemies[i].x, enemies[i].y>>]_vars

\* C33, amended: the first valid candidate of the chain becomes the enemy's
\* position; with no valid candidate the enemy ends the tick at its jittered
\* position when that is free of obstacles, and at its pre-tick position
\* otherwise.
C33_PursuitChain ==
  [][(state = "playing" /\ ~log'.reset) =>
       \A i \in 1..N_ENEMIES : pursuing(i) =>
          \E c \in {pursuit_chain(log'.enemy_jit[i], <<player'.x, player'.y>>, enemies[i].speed)} :
             IF free_of(c, current_room') # {}
               THEN <<enemies'[i].x, enemies'[i].y>> = c[MinOf(free_of(c, current_room'))]
             ELSE IF ~Overlaps(log'.enemy_to[i], current_room', ENEMY_SIZE)
               THEN <<enemies'[i].x, enemies'[i].y>> = log'.enemy_to[i]
             ELSE IF ~Overlaps(log'.enemy_jit[i], current_room', ENEMY_SIZE)
               THEN <<enemies'[i].x, enemies'[i].y>> = log'.enemy_jit[i]
             ELSE <<enemies'[i].x, enemies'[i].y>> = <<enemies[i].x, enemies[i].y>>]_vars

\* an enemy in pursuit whose three candidates overlap an obstacle keeps the
\* jitter of the tick
C33_Witness ==
  /\ state = "playing" /\ ~log.reset
  /\ \E i \in 1..N_ENEMIES :
       /\ enemies[i].alive /\ enemies[i].room = current_room
       /\ Closer(player.x, player.y, log.enemy_jit[i][1], log.enemy_jit[i][2],
                 ENEMY_DETECTION_RADIUS)
       /\ free_of(pursuit_chain(log.enemy_jit[i], <<player.x, player.y>>, enemies[i].speed),
                  current_room) = {}
       /\ Overlaps(log.enemy_to[i], current_room, ENEMY_SIZE)
       /\ ~Overlaps(log.enemy_jit[i], current_room, ENEMY_SIZE)
       /\ <<enemies[i].x, enemies[i].y>> = log.enemy_jit[i]
       /\ i \in log.rejected

\* the obstacles of every room lie outside the room's safe rectangles and at
\* least 1.5 * OBSTACLE_SIZE apart, and a room has at most MAX_OBSTACLES
obstacles_apart ==
  \A r \in {1, 2} :
     /\ Cardinality(obstacles[r]) <= MAX_OBSTACLES
     /\ \A o \in obstacles[r] :
          /\ \A z \in safe_zones(r) :
               ~(z[1] <= o[1] /\ o[1] <= z[1] + z[3] /\ z[2] <= o[2] /\ o[2] <= z[2] + z[4])
          /\ \A q \in obstacles[r] \ {o} :
               4 * Dist2(o[1], o[2], q[1], q[2]) >= 9 * OBSTACLE_SIZE * OBSTACLE_SIZE

C36_CompletedMeetsGate ==
  (state = "completed" /\ (game_time_limit = 0 \/ frame < game_time_limit * FPS))
    => /\ player.enemies_killed >= EXIT_KILLS
       /\ player.resources_collected >= EXIT_RESOURCES

\* C37: in every reachable state the player's resources_collected, the
\* game's resources_collected and the number of collected resources are
\* equal and at most 4, and the player's enemies_killed and the game's
\* enemies_killed are equal and at most 15.
C37_MirroredCounters ==
  /\ player.resources_collected = resources_collected
  /\ resources_collected = Cardinality({ i \in 1..N_RESOURCES : resources[i].collected })
  /\ resources_collected <= N_RESOURCES /\ N_RESOURCES = 4
  /\ player.enemies_killed = enemies_killed
  /\ enemies_killed <= N_ENEMIES /\ N_ENEMIES = 15

\* all four resources collected and eight enemies killed, the game running
C37_Witness ==
  /\ state = "playing" /\ ~log.reset /\ current_room = 2
  /\ player.resources_collected = N_RESOURCES /\ resources_collected = N_RESOURCES
  /\ player.enemies_killed = EXIT_KILLS /\ enemies_killed = EXIT_KILLS
  /\ \A i \in 1..N_RESOURCES : resources[i].collected

\* C38: in the state a Reset leaves, the positions of the player and of the
\* companion are free of the obstacles of room 1, and in the first tick of
\* play after it the companion's position is not refused.
C38_SpawnsValid ==
  /\ [](log.reset => /\ ~Overlaps(<<player.x, player.y>>, 1, PLAYER_SIZE)
                     /\ ~Overlaps(<<npc.x, npc.y>>, 1, NPC_SIZE))
  /\ [][(log.reset /\ state = "playing" /\ ~log'.reset)
          => log'.npc_move.at = log'.npc_move.to]_vars

\* C39: in a tick of play in which the companion's reaction is
\* notify_surprise, update_npc_position computes no new position: the
\* companion ends at the position it had when the method began, clamped into
\* the room and rounded to whole pixels; a positive attack cooldown is one
\* less and a cooldown of 0 stays 0; the companion hits no enemy, so that no
\* enemy loses health unless the player attacks; and the player's health
\* does not rise during the tick unless the player collects a resource.
C39_SurpriseIdles ==
  [][(state = "playing" /\ ~log'.reset /\ npc'.reaction = "notify_surprise") =>
       /\ log'.npc_move.to = log'.npc_move.from /\ log'.npc_move.at = log'.npc_move.from
       /\ npc'.x = RoundPx(clamp_x([current_room |-> current_room'], log'.npc_move.from[1], NPC_SIZE))
       /\ npc'.y = RoundPx(clamp_y([current_room |-> current_room'], log'.npc_move.from[2], NPC_SIZE))
       /\ npc'.attack_cooldown = Max(npc.attack_cooldown - 1, 0)
       /\ ~npc_struck(log')
       /\ player'.action # "attack" =>
            \A i \in 1..N_ENEMIES : enemies'[i].health = enemies[i].health
       /\ resources_collected' = resources_collected =>
            log'.health_max = player.health]_vars

\* a surprised companion within ATTACK_RADIUS of a living enemy and of a
\* player who has lost health, its cooldown running: it neither hits nor
\* heals nor moves
C39_Witness ==
  /\ state = "playing" /\ ~log.reset /\ npc.reaction = "notify_surprise"
  /\ npc.attack_cooldown > 0 /\ npc.attack_cooldown < NPC_ATTACK_COOLDOWN
  /\ player.health < Hp(PLAYER_START_HEALTH) /\ log.health_max > log.health_min
  /\ Closer(npc.x, npc.y, player.x, player.y, ATTACK_RADIUS + 5)
  /\ <<npc.x, npc.y>> = log.npc_move.from
  /\ \E i \in 1..N_ENEMIES :
       /\ enemies[i].alive /\ enemies[i].room = current_room
       /\ Closer(npc.x, npc.y, log.enemy_at[i][1], log.enemy_at[i][2], ATTACK_RADIUS)

\* the call of the tick that begins in this state is a change point of
\* RandomEmotionSystem: the cooldown is not above 0 after its decrement
change_point == emotion_system.emotion_change_cooldown <= 1

\* the least number of calls between two change points
LeastCooldown == EMOTION_CHANGE_INTERVAL - EMOTION_CHANGE_SPREAD

\* C40 as stated: under RandomEmotionSystem the companion's emotion changes
\* only in a tick whose call is a change point; the first call of a game and
\* the first call after a Reset are change points; a change point sets a
\* cooldown of 20..50; every other call returns the lagged emotion it was
\* given; and an emotion change comes at least 20 ticks after the change
\* before it.
C40_Original ==
  [][(state = "playing" /\ emotion_system.type = "random") =>
       /\ npc'.emotion # npc.emotion => change_point
       /\ (log.reset \/ played = 0) => change_point
       /\ change_point =>
            emotion_system'.emotion_change_cooldown
              \in LeastCooldown..(EMOTION_CHANGE_INTERVAL + EMOTION_CHANGE_SPREAD)
       /\ ~change_point =>
            /\ log'.strategy_args.npc_emotion_lagged = npc.emotion
            /\ log'.strategy_returned = npc.emotion
       /\ npc'.emotion # npc.emotion => log.since_change.ticks + 1 >= LeastCooldown]_vars

\* C40, amended: under RandomEmotionSystem the companion's emotion changes
\* only in a tick whose call is a change point or in which Game.reset runs;
\* the first call of a game and the first call after a Reset are change
\* points; a change point sets a cooldown of 20..50 unless Game.reset runs in
\* its tick; every other call returns the lagged emotion it was given; and an
\* emotion change made by the strategy comes at least 20 ticks after the
\* strategy's change before it unless Game.reset ran in between.
C40_ChangePoints ==
  [][(state = "playing" /\ emotion_system.type = "random") =>
       /\ npc'.emotion # npc.emotion => change_point \/ log'.reset
       /\ (log.reset \/ played = 0) => change_point
       /\ change_point =>
            \/ emotion_system'.emotion_change_cooldown
                 \in LeastCooldown..(EMOTION_CHANGE_INTERVAL + EMOTION_CHANGE_SPREAD)
            \/ log'.reset
       /\ ~change_point =>
            /\ log'.strategy_args.npc_emotion_lagged = npc.emotion
            /\ log'.strategy_returned = npc.emotion
       /\ (npc'.emotion # npc.emotion /\ ~log'.reset) =>
            log.since_change.ticks + 1 >= LeastCooldown \/ log.since_change.reset]_vars

\* the second change of a game, drawn 20 ticks after the first: the least
\* cooldown has run out and the strategy has replaced the emotion of its
\* first draw
C40_Witness ==
  /\ state = "playing" /\ emotion_system.type = "random" /\ ~log.reset
  /\ log.since_change = [ticks |-> 0, reset |-> FALSE]
  /\ npc.emotion # npc.emotion_lagged /\ npc.emotion_lagged # "anticipation"
  /\ emotion_system.emotion_change_cooldown = EMOTION_CHANGE_INTERVAL
  /\ played = LeastCooldown + 1

====
